---- MODULE Spec2Model ----
(***************************************************************************)
(* Verification model of the publishing engine:                            *)
(*   - the publish orchestrator (internal/publish, defaultPublisher),      *)
(*   - the credential store (internal/credentials, CredentialsService),    *)
(*   - the capability validator (internal/clients/connect, checkConfig).   *)
(* Each subsystem has its own specification over the shared variables.     *)
(***************************************************************************)
EXTENDS Integers, Sequences, FiniteSets, TLC

VARIABLES
    pc,          \* position of the publish call
    Target,      \* p.Target: the in-memory deployment record, or NilTarget
    prevType,    \* p.Target.Configuration.Type relative to p.Config.Type
    Validate,    \* p.Config.Validate
    knownID,     \* p.Target.ID when publish() was called, "" when none
    SaveName,    \* p.SaveName
    TargetName,  \* p.TargetName
    disk,        \* deployment-record files, by saved name
    contentID,   \* local contentID of publishWithClient
    bundleID,    \* local bundleID of publishWithClient
    gotBundle,   \* bundle id returned by the server to this publish, if any
    err,         \* the error publishWithClient returns, or NoErr
    events,      \* events emitted so far, in order
    calls,       \* server API calls issued so far, in order
    stages,      \* stages begun so far, in order
    returned,    \* what publish() returned: "none", "nil" or "err"
    keyring,     \* the credential table stored in the keyring
    env,         \* CONNECT_SERVER and CONNECT_API_KEY of the environment
    loaded,      \* the table the last load() returned
    credResult,  \* operation, error and value of the last store call
    credArg,     \* the arguments of the last store call
    capInput,    \* the configuration, the project and the server settings
    capResult,   \* what CheckCapabilities returned, or Unchecked
    requests,    \* the GET requests CheckCapabilities sent, in order
    tree,        \* the file system: the node at each absolute path
    ignores,     \* the ignore rules: names of files and directories to leave out
    walkerKind,  \* which code follows symbolic links: walkFunc or symlinkWalker
    archive,     \* whether makeBundle has a destination (CreateBundle) or not
    todo,        \* the paths Walk has still to visit, the next one first
    manifest,    \* bundle.manifest.Files: the paths AddFile was called with
    added,       \* the calls of AddFile, in order
    headers,     \* the entries written to the tar archive, in order
    bundleErr,   \* the error makeBundle returns, or "none"
    bpc,         \* position of makeBundle
    opc,         \* position of a second publish of the same saved name
    oTarget,     \* p.Target of the second publish
    tpc,         \* per thread: its position in a credential store call
    tTable,      \* per thread: the table its load returned
    tArg,        \* per thread: the arguments of its call
    tResult,     \* per thread: what its call returned
    exeInput,    \* the inspector, the files, the search path and which programs run
    exeResult,   \* what getRExecutable or getPythonExecutable returned
    entrypointPaths, \* the .py files base.Glob returns, in its order, with what they import
    configs,     \* what pyShinyDetector.InferType returned
    loadedTarget, \* the deployment record the publisher was made with
    state,       \* StateManager.state
    lock,        \* the call that holds StateManager.lock, 0 when it is free
    call,        \* per call of start() or stop(): what it is and where it stands
    assistant    \* whether the assistant runs

pubVars == <<pc, Target, prevType, Validate, knownID, SaveName, TargetName, disk,
             contentID, bundleID, gotBundle, err, events, calls, stages,
             returned>>

credVars == <<keyring, env, loaded, credResult, credArg>>

capVars == <<capInput, capResult, requests>>

bundleVars == <<tree, ignores, walkerKind, archive, todo, manifest, added, headers,
                bundleErr, bpc>>

otherVars == <<opc, oTarget>>

threadVars == <<tpc, tTable, tArg, tResult>>

exeVars == <<exeInput, exeResult>>

detVars == <<entrypointPaths, configs>>

startVars == <<loadedTarget>>

serviceVars == <<state, lock, call, assistant>>

vars == <<pubVars, credVars, capVars, bundleVars, otherVars, threadVars, exeVars, detVars, startVars, serviceVars>>

(* what the operations of each component leave alone *)
notPublish == <<credVars, capVars, bundleVars, otherVars, threadVars, exeVars, detVars, startVars, serviceVars>>
notCred == <<pubVars, capVars, bundleVars, otherVars, threadVars, exeVars, detVars, startVars, serviceVars>>
notCap == <<pubVars, credVars, bundleVars, otherVars, threadVars, exeVars, detVars, startVars, serviceVars>>
notBundle == <<pubVars, credVars, capVars, otherVars, threadVars, exeVars, detVars, startVars, serviceVars>>
notOther == <<credVars, capVars, bundleVars, threadVars, exeVars, detVars, startVars, serviceVars>>
notThread == <<pubVars, capVars, bundleVars, otherVars, loaded, credResult, credArg, exeVars, detVars, startVars, serviceVars>>
notExe == <<pubVars, credVars, capVars, bundleVars, otherVars, threadVars, detVars, startVars, serviceVars>>
notDet == <<pubVars, credVars, capVars, bundleVars, otherVars, threadVars, exeVars, startVars, serviceVars>>
notService == <<pubVars, credVars, capVars, bundleVars, otherVars, threadVars, exeVars, detVars, startVars>>

----------------------------------------------------------------------------
(* Operations (events.Operation) and phases (events.Phase) *)

AgentOp == "agent"
PublishOp == "publish"
PublishCheckCapabilitiesOp == "publish/checkCapabilities"
PublishCreateNewDeploymentOp == "publish/createNewDeployment"
PublishCreateBundleOp == "publish/createBundle"
PublishUploadBundleOp == "publish/uploadBundle"
PublishUpdateDeploymentOp == "publish/updateDeployment"
PublishSetEnvVarsOp == "publish/setEnvVars"
PublishDeployBundleOp == "publish/deployBundle"
PublishWaitForDeploymentOp == "publish/waitForDeployment"
PublishValidateDeploymentOp == "publish/validateDeployment"

StartPhase == "start"
SuccessPhase == "success"
FailurePhase == "failure"

StageOps == {PublishCheckCapabilitiesOp, PublishCreateNewDeploymentOp,
             PublishCreateBundleOp, PublishUploadBundleOp,
             PublishUpdateDeploymentOp, PublishSetEnvVarsOp,
             PublishDeployBundleOp, PublishWaitForDeploymentOp,
             PublishValidateDeploymentOp}

(* An emitted event: operation and phase *)
Event(op, phase) == [op |-> op, phase |-> phase]

(* Errors: the operation and the code an AgentError carries *)
NoErr == [op |-> "none", code |-> "none"]

(* types.AsAgentErrForOperation / types.OperationError: the error is *)
(* wrapped with the operation of the stage that returns it           *)
AsAgentErrForOperation(op, code) == [op |-> op, code |-> code]

(* types.NewAgentError(code, err, details): takes no operation *)
NewAgentError(code) == [op |-> AgentOp, code |-> code]

(* types.AsAgentError(err): an AgentError is returned as it is; any other *)
(* error is wrapped without an operation of a stage                       *)
RawError == [op |-> "raw", code |-> "go error"]
AsAgentError(e) == IF e = RawError THEN NewAgentError("unknown") ELSE e

----------------------------------------------------------------------------
(* Deployment records (deployment.Deployment) *)

NoFiles == "nil"
NilTarget == [present |-> FALSE, ID |-> "", BundleID |-> "", Files |-> NoFiles,
              CreatedAt |-> "", Error |-> NoErr]
NoRecord == [present |-> FALSE, ID |-> "", BundleID |-> "", Files |-> NoFiles,
             CreatedAt |-> "-", Error |-> NoErr]

SavedNames == {"dep"}

(* a record left by an earlier publish of the same target, deployed *)
OldDeployed(e) == [present |-> TRUE, ID |-> "c0", BundleID |-> "b0",
                   Files |-> "old files", CreatedAt |-> "before", Error |-> e]
(* a pre-deployment: a record with no content id yet *)
PreDeployment == [present |-> TRUE, ID |-> "", BundleID |-> "",
                  Files |-> NoFiles, CreatedAt |-> "before", Error |-> NoErr]

NewContentID == "c1"
NewBundleID == "b1"
ManifestFiles == "manifest files"

(* an isDeployed that takes a record without content id for a deployment *)
isDeployed_AnyRecord == Target.present

(* isDeployed *)
isDeployed == Target.present /\ Target.ID # ""

----------------------------------------------------------------------------
(* The publish orchestrator: defaultPublisher *)

Emit(evs, op, phase) == Append(evs, Event(op, phase))

(* writeDeploymentRecord: the name of the record file it writes *)
recordName == IF SaveName = "" THEN TargetName ELSE SaveName

(* a writeDeploymentRecord that writes nothing *)
writeDeploymentRecord_NoWrite(t, writeOk) == disk

(* writeDeploymentRecord: Target.WriteFile(recordPath) either replaces the *)
(* record file or fails and leaves it as it was                            *)
writeDeploymentRecord(t, writeOk) ==
    IF writeOk THEN [disk EXCEPT ![recordName] = t] ELSE disk

(* a createDeploymentRecord that keeps the error of the existing record *)
createDeploymentRecord_KeepError(id) ==
    [present |-> TRUE, ID |-> id, BundleID |-> "", Files |-> NoFiles,
     CreatedAt |-> IF Target.present THEN Target.CreatedAt ELSE "now",
     Error |-> IF Target.present THEN Target.Error ELSE NoErr]

(* createDeploymentRecord: a fresh record for contentID; only CreatedAt is *)
(* kept from an existing record                                            *)
createDeploymentRecord(id) ==
    [present |-> TRUE, ID |-> id, BundleID |-> "", Files |-> NoFiles,
     CreatedAt |-> IF Target.present THEN Target.CreatedAt ELSE "now",
     Error |-> NoErr]

(* a publishWithClient that goes on to the next stage after an error *)
returnOnError_Continue(ok, next) == next

(* publishWithClient: "if err != nil { return err }" after each stage *)
returnOnError(ok, next) == IF ok THEN next ELSE "return"

(* a publishWithClient that validates whether configured or not *)
afterWaitForTask_AlwaysValidate == "validateContent"

(* publishWithClient, lines 422-427: validation runs only when configured *)
afterWaitForTask == IF Validate THEN "validateContent" ELSE "return"

(* a publish that reports the failure and returns nil *)
publishResult_AlwaysNil(e) == "nil"

(* publish: the error of publishWithClient is the result of publish *)
publishResult(e) == IF e # NoErr THEN "err" ELSE "nil"

(* publish, up to the call of publishWithClient *)
publish ==
    /\ UNCHANGED notPublish
    /\ pc = "publish"
    /\ events' = Emit(events, PublishOp, StartPhase)
    /\ \E clientOk \in BOOLEAN :
         IF clientOk
           THEN pc' = "checkConfiguration" /\ returned' = returned /\ err' = err
           ELSE pc' = "done" /\ returned' = "err" /\ err' = RawError
    /\ UNCHANGED <<Target, prevType, Validate, knownID, SaveName, TargetName, disk,
                   contentID, bundleID, gotBundle, calls, stages>>

(* checkConfiguration: authentication test, content type unchanged, *)
(* capability validation                                            *)
checkConfiguration ==
    /\ UNCHANGED notPublish
    /\ pc = "checkConfiguration"
    /\ stages' = Append(stages, "PreflightCheck")
    /\ \E authOk \in BOOLEAN, capOk \in BOOLEAN :
         LET op == PublishCheckCapabilitiesOp
             started == Emit(events, op, StartPhase)
             typeChanged == Target.present /\ prevType = "changed"
         IN  IF ~authOk
               THEN /\ calls' = Append(calls, "TestAuthentication")
                    /\ err' = AsAgentErrForOperation(op, "authFailedErr")
                    /\ events' = started
                    /\ pc' = returnOnError(FALSE, "createDeployment")
             ELSE IF typeChanged
               THEN /\ calls' = Append(calls, "TestAuthentication")
                    /\ err' = AsAgentErrForOperation(op, "unknown")
                    /\ events' = started
                    /\ pc' = returnOnError(FALSE, "createDeployment")
             ELSE IF ~capOk
               THEN /\ calls' = calls \o <<"TestAuthentication", "CheckCapabilities">>
                    /\ err' = AsAgentErrForOperation(op, "capability")
                    /\ events' = started
                    /\ pc' = returnOnError(FALSE, "createDeployment")
             ELSE   /\ calls' = calls \o <<"TestAuthentication", "CheckCapabilities">>
                    /\ err' = err
                    /\ events' = Emit(started, op, SuccessPhase)
                    /\ pc' = returnOnError(TRUE, "createDeployment")
    /\ UNCHANGED <<Target, prevType, Validate, knownID, SaveName, TargetName, disk,
                   contentID, bundleID, gotBundle, returned>>

(* publishWithClient, lines 380-394: take the known content id or create *)
(* a new deployment (createDeployment), then createDeploymentRecord        *)
createDeployment ==
    /\ UNCHANGED notPublish
    /\ pc = "createDeployment"
    /\ stages' = Append(stages, "CreateOrUpdateDeployment")
    /\ \E createOk \in BOOLEAN, writeOk \in BOOLEAN :
         LET op == PublishCreateNewDeploymentOp
             created == Emit(Emit(events, op, StartPhase), op, SuccessPhase)
             id == IF isDeployed THEN Target.ID ELSE NewContentID
             record == createDeploymentRecord(id)
         IN  IF ~isDeployed /\ ~createOk
               THEN /\ calls' = Append(calls, "CreateDeployment")
                    /\ events' = Emit(events, op, StartPhase)
                    /\ err' = AsAgentErrForOperation(op, "serverErr")
                    /\ pc' = returnOnError(FALSE, "createBundle")
                    /\ UNCHANGED <<Target, SaveName, TargetName, disk, contentID>>
               ELSE /\ calls' = IF isDeployed THEN calls
                                              ELSE Append(calls, "CreateDeployment")
                    /\ events' = IF isDeployed THEN events ELSE created
                    /\ contentID' = id
                    /\ Target' = record
                    /\ SaveName' = recordName
                    /\ TargetName' = recordName
                    /\ disk' = writeDeploymentRecord(record, writeOk)
                    /\ err' = IF writeOk THEN err
                                         ELSE AsAgentErrForOperation(op, "unknown")
                    /\ pc' = returnOnError(writeOk, "createBundle")
    /\ UNCHANGED <<prevType, Validate, knownID, bundleID, gotBundle, returned>>

(* createAndUploadBundle, the Create Bundle step *)
createBundle ==
    /\ UNCHANGED notPublish
    /\ pc = "createBundle"
    /\ stages' = Append(stages, "CreateBundle")
    /\ \E bundleOk \in BOOLEAN :
         LET op == PublishCreateBundleOp
             started == Emit(events, op, StartPhase)
         IN  IF bundleOk
               THEN /\ events' = Emit(started, op, SuccessPhase)
                    /\ err' = err
                    /\ pc' = returnOnError(TRUE, "uploadBundle")
               ELSE /\ events' = started
                    /\ err' = AsAgentErrForOperation(op, "unknown")
                    /\ pc' = returnOnError(FALSE, "uploadBundle")
    /\ UNCHANGED <<Target, prevType, Validate, knownID, SaveName, TargetName, disk,
                   contentID, bundleID, gotBundle, calls, returned>>

(* createAndUploadBundle, the Upload Bundle step: upload, record the bundle *)
(* id and the files in the deployment record, write the record              *)
uploadBundle ==
    /\ UNCHANGED notPublish
    /\ pc = "uploadBundle"
    /\ stages' = Append(stages, "UploadBundle")
    /\ calls' = Append(calls, "UploadBundle")
    /\ \E uploadOk \in BOOLEAN, writeOk \in BOOLEAN :
         LET op == PublishUploadBundleOp
             started == Emit(events, op, StartPhase)
             record == [Target EXCEPT !.Files = ManifestFiles,
                                      !.BundleID = NewBundleID]
         IN  IF ~uploadOk
               THEN /\ events' = started
                    /\ err' = AsAgentErrForOperation(op, "serverErr")
                    /\ pc' = returnOnError(FALSE, "updateContent")
                    /\ UNCHANGED <<Target, SaveName, TargetName, disk,
                                   bundleID, gotBundle>>
               ELSE /\ gotBundle' = NewBundleID
                    /\ Target' = record
                    /\ SaveName' = recordName
                    /\ TargetName' = recordName
                    /\ disk' = writeDeploymentRecord(record, writeOk)
                    /\ IF writeOk
                         THEN /\ events' = Emit(started, op, SuccessPhase)
                              /\ bundleID' = NewBundleID
                              /\ err' = err
                              /\ pc' = returnOnError(TRUE, "updateContent")
                         ELSE /\ events' = started
                              /\ bundleID' = bundleID
                              /\ err' = RawError
                              /\ pc' = returnOnError(FALSE, "updateContent")
    /\ UNCHANGED <<prevType, Validate, knownID, contentID, returned>>

(* updateContent: a 404 from the server becomes a NewAgentError with the *)
(* deployment-not-found code, any other error is wrapped with the stage  *)
updateContent ==
    /\ UNCHANGED notPublish
    /\ pc = "updateContent"
    /\ stages' = Append(stages, "UpdateContentSettings")
    /\ calls' = Append(calls, "UpdateDeployment")
    /\ \E reply \in {"ok", "not found", "error"} :
         LET op == PublishUpdateDeploymentOp
             started == Emit(events, op, StartPhase)
         IN  CASE reply = "ok" ->
                    /\ events' = Emit(started, op, SuccessPhase)
                    /\ err' = err
                    /\ pc' = returnOnError(TRUE, "setEnvVars")
               [] reply = "not found" ->
                    /\ events' = started
                    /\ err' = NewAgentError("deploymentNotFoundErr")
                    /\ pc' = returnOnError(FALSE, "setEnvVars")
               [] reply = "error" ->
                    /\ events' = started
                    /\ err' = AsAgentErrForOperation(op, "serverErr")
                    /\ pc' = returnOnError(FALSE, "setEnvVars")
    /\ UNCHANGED <<Target, prevType, Validate, knownID, SaveName, TargetName, disk,
                   contentID, bundleID, gotBundle, returned>>

(* A stage that emits its start event, issues one server call and either *)
(* emits its success event or returns the error wrapped with its name:   *)
(* the events emitted and the error returned                             *)
stageEvents(op, ok) ==
    IF ok THEN Emit(Emit(events, op, StartPhase), op, SuccessPhase)
          ELSE Emit(events, op, StartPhase)

stageErr(op, ok) ==
    IF ok THEN err ELSE AsAgentErrForOperation(op, "serverErr")

(* setEnvVars *)
setEnvVars ==
    /\ UNCHANGED notPublish
    /\ pc = "setEnvVars"
    /\ stages' = Append(stages, "SetEnvironmentVariables")
    /\ calls' = Append(calls, "SetEnvVars")
    /\ \E ok \in BOOLEAN :
         /\ events' = stageEvents(PublishSetEnvVarsOp, ok)
         /\ err' = stageErr(PublishSetEnvVarsOp, ok)
         /\ pc' = returnOnError(ok, "deployBundle")
    /\ UNCHANGED <<Target, prevType, Validate, knownID, SaveName, TargetName, disk,
                   contentID, bundleID, gotBundle, returned>>

(* deployBundle *)
deployBundle ==
    /\ UNCHANGED notPublish
    /\ pc = "deployBundle"
    /\ stages' = Append(stages, "DeployBundle")
    /\ calls' = Append(calls, "DeployBundle")
    /\ \E ok \in BOOLEAN :
         /\ events' = stageEvents(PublishDeployBundleOp, ok)
         /\ err' = stageErr(PublishDeployBundleOp, ok)
         /\ pc' = returnOnError(ok, "WaitForTask")
    /\ UNCHANGED <<Target, prevType, Validate, knownID, SaveName, TargetName, disk,
                   contentID, bundleID, gotBundle, returned>>

(* client.WaitForTask, and the test of p.Config.Validate that follows it *)
WaitForTask ==
    /\ UNCHANGED notPublish
    /\ pc = "WaitForTask"
    /\ stages' = Append(stages, "WaitForTask")
    /\ calls' = Append(calls, "WaitForTask")
    /\ \E ok \in BOOLEAN :
         /\ events' = stageEvents(PublishWaitForDeploymentOp, ok)
         /\ err' = stageErr(PublishWaitForDeploymentOp, ok)
         /\ pc' = returnOnError(ok, afterWaitForTask)
    /\ UNCHANGED <<Target, prevType, Validate, knownID, SaveName, TargetName, disk,
                   contentID, bundleID, gotBundle, returned>>

(* validateContent, run only when p.Config.Validate is set *)
validateContent ==
    /\ UNCHANGED notPublish
    /\ pc = "validateContent"
    /\ stages' = Append(stages, "ValidateDeployment")
    /\ calls' = Append(calls, "ValidateDeployment")
    /\ \E ok \in BOOLEAN :
         /\ events' = stageEvents(PublishValidateDeploymentOp, ok)
         /\ err' = stageErr(PublishValidateDeploymentOp, ok)
         /\ pc' = returnOnError(ok, "return")
    /\ UNCHANGED <<Target, prevType, Validate, knownID, SaveName, TargetName, disk,
                   contentID, bundleID, gotBundle, returned>>

(* emitErrorEvents: record the error in the deployment record, if there is *)
(* one, and write it (a write error is only logged); the events it emits   *)
emitErrorEvents(e) ==
    Emit(Emit(events, AsAgentError(e).op, FailurePhase), PublishOp, FailurePhase)

(* publish, after publishWithClient has returned *)
publishReturn ==
    /\ UNCHANGED notPublish
    /\ pc = "return"
    /\ pc' = "done"
    /\ IF err # NoErr
         THEN /\ returned' = publishResult(err)
              /\ events' = emitErrorEvents(err)
              /\ stages' = stages
              /\ IF Target.present
                   THEN \E writeOk \in BOOLEAN :
                          LET record == [Target EXCEPT !.Error = AsAgentError(err)]
                          IN  /\ Target' = record
                              /\ SaveName' = recordName
                              /\ TargetName' = recordName
                              /\ disk' = writeDeploymentRecord(record, writeOk)
                   ELSE UNCHANGED <<Target, SaveName, TargetName, disk>>
         ELSE /\ returned' = publishResult(err)
              /\ events' = Emit(events, PublishOp, SuccessPhase)
              /\ stages' = Append(stages, "Success")
              /\ UNCHANGED <<Target, SaveName, TargetName, disk>>
    /\ UNCHANGED <<prevType, Validate, knownID, contentID, bundleID, gotBundle, err, calls>>

NextPublish ==
    \/ publish
    \/ checkConfiguration
    \/ createDeployment
    \/ createBundle
    \/ uploadBundle
    \/ updateContent
    \/ setEnvVars
    \/ deployBundle
    \/ WaitForTask
    \/ validateContent
    \/ publishReturn

----------------------------------------------------------------------------
(* A second publish of the same saved deployment name, run by another     *)
(* defaultPublisher at the same time: the steps at which it writes the    *)
(* deployment record. It shares nothing with the first but the record     *)
(* file.                                                                  *)

(* a writeDeploymentRecord that leaves a record of another deployment or *)
(* with another bundle in place                                          *)
writeOtherRecord_IfUnchanged(t) ==
    IF disk[recordName].ID \in {"", t.ID} /\ disk[recordName].BundleID \in {"", "b0"}
      THEN [disk EXCEPT ![recordName] = t]
      ELSE disk

(* writeDeploymentRecord of the second publish: Target.WriteFile(recordPath) *)
writeOtherRecord(t) == [disk EXCEPT ![recordName] = t]

(* publishWithClient of the second publish, lines 380-394: *)
(* createDeploymentRecord and writeDeploymentRecord         *)
otherCreateDeploymentRecord ==
    /\ UNCHANGED notOther
    /\ opc = "createDeployment"
    /\ LET id == IF oTarget.present /\ oTarget.ID # "" THEN oTarget.ID
                                                       ELSE "c2"
           record == [present |-> TRUE, ID |-> id, BundleID |-> "",
                      Files |-> NoFiles,
                      CreatedAt |-> IF oTarget.present THEN oTarget.CreatedAt
                                                       ELSE "now",
                      Error |-> NoErr]
       IN  /\ oTarget' = record
           /\ disk' = writeOtherRecord(record)
    /\ opc' = "uploadBundle"
    /\ UNCHANGED <<pc, Target, prevType, Validate, knownID, SaveName, TargetName,
                   contentID, bundleID, gotBundle, err, events, calls, stages,
                   returned>>

(* createAndUploadBundle of the second publish, lines 390-403: the bundle *)
(* id and the files are put in the record and the record is written       *)
otherUploadBundle ==
    /\ UNCHANGED notOther
    /\ opc = "uploadBundle"
    /\ LET record == [oTarget EXCEPT !.Files = ManifestFiles,
                                     !.BundleID = "b2"]
       IN  /\ oTarget' = record
           /\ disk' = writeOtherRecord(record)
    /\ opc' = "deploy"
    /\ UNCHANGED <<pc, Target, prevType, Validate, knownID, SaveName, TargetName,
                   contentID, bundleID, gotBundle, err, events, calls, stages,
                   returned>>

(* the second publish ends: with success nothing more is written, with a *)
(* failure emitErrorEvents writes the record with the error              *)
otherReturn ==
    /\ UNCHANGED notOther
    /\ opc \in {"uploadBundle", "deploy"}
    /\ \E ok \in BOOLEAN :
         IF ok /\ opc = "deploy"
           THEN UNCHANGED <<oTarget, disk>>
           ELSE LET record == [oTarget EXCEPT !.Error =
                                 AsAgentErrForOperation(PublishDeployBundleOp,
                                                        "serverErr")]
                IN  /\ oTarget' = record
                    /\ disk' = writeOtherRecord(record)
    /\ opc' = "done"
    /\ UNCHANGED <<pc, Target, prevType, Validate, knownID, SaveName, TargetName,
                   contentID, bundleID, gotBundle, err, events, calls, stages,
                   returned>>

(* two publishes of the same saved name at the same time *)
NextRace ==
    \/ NextPublish
    \/ otherCreateDeploymentRecord
    \/ otherUploadBundle
    \/ otherReturn

----------------------------------------------------------------------------
(* The credential store: CredentialsService *)

CurrentVersion == 0
EnvVarGUID == 0

(* how many credentials the keyring holds at most *)
MaxStored == 2
(* the guids uuid.New() draws from; never the reserved one *)
NewGUIDs == 1..MaxStored

Names == {"n1", "Env:a"}
ApiKeys == {"k"}
RawURLs == {"https://a", "HTTPS://A/", "https://b", "://"}
BadURL == "error"

(* util.NormalizeServerURL: lower case, no trailing slash; an error for a *)
(* URL that does not parse                                                *)
NormalizeServerURL(u) ==
    CASE u = "HTTPS://A/" -> "https://a"
      [] u = "://" -> BadURL
      [] OTHER -> u

(* url.Parse(u).Host without its port *)
Host(u) == IF u = "https://a" THEN "a" ELSE "b"

Credential(guid, name, url, ak) ==
    [GUID |-> guid, Name |-> name, URL |-> url, ApiKey |-> ak]

CredentialRecord(guid, cred) ==
    [GUID |-> guid, Version |-> CurrentVersion, Data |-> cred]

EmptyTable == [g \in {} |-> CredentialRecord(g, Credential(g, "", "", ""))]

(* a ToCredential that decodes a record of any version as version 0 *)
ToCredential_AnyVersion(cr) == [err |-> "none", cred |-> cr.Data]

(* ToCredential: only version 0 decodes *)
ToCredential(cr) ==
    IF cr.Version = 0 THEN [err |-> "none", cred |-> cr.Data]
                      ELSE [err |-> "VersionError", cred |-> cr.Data]

EnvSet == env.server # "" /\ env.apiKey # ""

(* EnvCredentialRecordFactory: the record built from the environment *)
EnvCredentialRecordFactory ==
    LET normalizedUrl == NormalizeServerURL(env.server)
        name == "Env:" \o Host(normalizedUrl)
    IN  CredentialRecord(EnvVarGUID,
            Credential(EnvVarGUID, name, normalizedUrl, env.apiKey))

(* load: the keyring table with the environment credential inserted *)
load ==
    IF EnvSet
      THEN [g \in DOMAIN keyring \cup {EnvVarGUID} |->
               IF g = EnvVarGUID THEN EnvCredentialRecordFactory ELSE keyring[g]]
      ELSE keyring

(* load fails when the keyring cannot be read or the environment URL does *)
(* not normalize                                                          *)
loadErr(keyringOk) ==
    IF ~keyringOk THEN "LoadError"
    ELSE IF EnvSet /\ NormalizeServerURL(env.server) = BadURL THEN "EnvURLError"
    ELSE "none"

(* a save that keeps the environment credential *)
save_KeepEnv(table) == table

(* save: the table without the environment credential *)
save(table) == [g \in DOMAIN table \ {EnvVarGUID} |-> table[g]]

Result(op, e, value) == [op |-> op, err |-> e, value |-> value]
NoValue == EmptyTable

(* the arguments of a call: guid of Get and Delete, name and url of Set *)
NoGUID == -1
Args(guid, name, url) == [guid |-> guid, name |-> name, url |-> url]

(* A version of the record format this program does not know *)
LaterVersion == 1

(* the keyring is shared with other versions of the program: one of them *)
(* rewrites a stored record in a later version of the record format      *)
WriteLaterVersion ==
    /\ UNCHANGED notCred
    /\ \E g \in DOMAIN keyring :
         /\ keyring[g].Version = CurrentVersion
         /\ keyring' = [keyring EXCEPT ![g].Version = LaterVersion]
    /\ UNCHANGED <<env, loaded, credResult, credArg>>

(* the process environment: set outside the store, read on every load; *)
(* both variables set, none set, or the server set without the key     *)
Setenv ==
    /\ UNCHANGED notCred
    /\ \E server \in RawURLs \cup {""}, ak \in ApiKeys \cup {""} :
         /\ server = "" => ak = ""
         /\ ak = "" => server \in {"", "https://a"}
         /\ ak # "" => server # "https://a"
         /\ env' = [server |-> server, apiKey |-> ak]
    /\ env' # env
    /\ UNCHANGED <<keyring, loaded, credResult, credArg>>

(* a collision scan that compares the URLs only *)
SetCollisions_URLOnly(table, name, normalizedUrl) ==
    { e \in {"EnvURLCollisionError", "URLCollisionError", "CorruptedError"} :
        \E g \in DOMAIN table :
          LET cred == ToCredential(table[g]).cred
          IN  \/ /\ ToCredential(table[g]).err = "none"
                 /\ cred.URL = normalizedUrl
                 /\ e = IF cred.GUID = EnvVarGUID THEN "EnvURLCollisionError"
                                                  ELSE "URLCollisionError"
              \/ /\ ToCredential(table[g]).err # "none"
                 /\ e = "CorruptedError" }

(* the errors the collision scan of Set can return: the scan follows the map *)
(* order, and for each credential tests the URL before the name; a record    *)
(* that does not decode ends the scan with a CorruptedError                  *)
SetCollisions(table, name, normalizedUrl) ==
    { e \in {"EnvURLCollisionError", "URLCollisionError",
             "EnvNameCollisionError", "NameCollisionError", "CorruptedError"} :
        \E g \in DOMAIN table :
          LET cred == ToCredential(table[g]).cred
          IN  \/ /\ ToCredential(table[g]).err = "none"
                 /\ cred.URL = normalizedUrl
                 /\ e = IF cred.GUID = EnvVarGUID THEN "EnvURLCollisionError"
                                                  ELSE "URLCollisionError"
              \/ /\ ToCredential(table[g]).err = "none"
                 /\ cred.URL # normalizedUrl
                 /\ cred.Name = name
                 /\ e = IF cred.GUID = EnvVarGUID THEN "EnvNameCollisionError"
                                                  ELSE "NameCollisionError"
              \/ /\ ToCredential(table[g]).err # "none"
                 /\ e = "CorruptedError" }

(* uuid.New: a guid no record of the table has; which one is immaterial, *)
(* the least unused one is taken                                         *)
New(table) ==
    CHOOSE guid \in NewGUIDs \ DOMAIN table :
        \A other \in NewGUIDs \ DOMAIN table : guid <= other

Set ==
  /\ UNCHANGED notCred
  /\ \E name \in Names, url \in RawURLs, ak \in ApiKeys,
        keyringOk \in BOOLEAN, saveOk \in BOOLEAN :
      /\ credArg' = Args(NoGUID, name, url)
      /\ LET table == load
             normalizedUrl == NormalizeServerURL(url)
             collisions == SetCollisions(table, name, normalizedUrl)
         IN  IF loadErr(keyringOk) # "none"
               THEN /\ credResult' = Result("Set", loadErr(keyringOk), NoValue)
                    /\ UNCHANGED <<keyring, env, loaded>>
             ELSE IF normalizedUrl = BadURL
               THEN /\ credResult' = Result("Set", "URLError", NoValue)
                    /\ loaded' = table
                    /\ UNCHANGED <<keyring, env>>
             ELSE IF collisions # {}
               THEN /\ \E e \in collisions : credResult' = Result("Set", e, NoValue)
                    /\ loaded' = table
                    /\ UNCHANGED <<keyring, env>>
             ELSE /\ Cardinality(DOMAIN keyring) < MaxStored
                  /\ LET guid == New(table)
                         cred == Credential(guid, name, normalizedUrl, ak)
                         table2 == [g \in DOMAIN table \cup {guid} |->
                                      IF g = guid THEN CredentialRecord(guid, cred)
                                                  ELSE table[g]]
                     IN    /\ keyring' = IF saveOk THEN save(table2) ELSE keyring
                           /\ credResult' =
                                IF saveOk
                                  THEN Result("Set", "none", [g \in {guid} |-> cred])
                                  ELSE Result("Set", "SaveError", NoValue)
                  /\ loaded' = table
                  /\ env' = env

(* a Delete that does not protect the environment credential *)
isEnvVarGUID_Never(guid) == FALSE

(* Delete, lines 143-146: "if guid == EnvVarGUID" *)
isEnvVarGUID(guid) == guid = EnvVarGUID

Delete ==
  /\ UNCHANGED notCred
  /\ \E guid \in NewGUIDs \cup {EnvVarGUID},
        keyringOk \in BOOLEAN, saveOk \in BOOLEAN :
      /\ credArg' = Args(guid, "", "")
      /\ LET table == load
         IN  IF loadErr(keyringOk) # "none"
               THEN /\ credResult' = Result("Delete", loadErr(keyringOk), NoValue)
                    /\ UNCHANGED <<keyring, env, loaded>>
             ELSE IF guid \notin DOMAIN table
               THEN /\ credResult' = Result("Delete", "NotFoundError", NoValue)
                    /\ loaded' = table
                    /\ UNCHANGED <<keyring, env>>
             ELSE IF isEnvVarGUID(guid)
               THEN /\ credResult' = Result("Delete", "EnvURLDeleteError", NoValue)
                    /\ loaded' = table
                    /\ UNCHANGED <<keyring, env>>
             ELSE /\ keyring' = IF saveOk
                                  THEN save([g \in DOMAIN table \ {guid} |-> table[g]])
                                  ELSE keyring
                  /\ credResult' = Result("Delete", IF saveOk THEN "none"
                                                             ELSE "SaveError", NoValue)
                  /\ loaded' = table
                  /\ env' = env

Get ==
  /\ UNCHANGED notCred
  /\ \E guid \in NewGUIDs \cup {EnvVarGUID}, keyringOk \in BOOLEAN :
      /\ credArg' = Args(guid, "", "")
      /\ LET table == load
         IN  /\ IF loadErr(keyringOk) # "none"
                  THEN /\ credResult' = Result("Get", loadErr(keyringOk), NoValue)
                       /\ loaded' = loaded
                ELSE IF guid \notin DOMAIN table
                  THEN /\ credResult' = Result("Get", "NotFoundError", NoValue)
                       /\ loaded' = table
                ELSE /\ credResult' =
                          IF ToCredential(table[guid]).err # "none"
                            THEN Result("Get", ToCredential(table[guid]).err, NoValue)
                            ELSE Result("Get", "none",
                                   [g \in {guid} |-> ToCredential(table[guid]).cred])
                     /\ loaded' = table
             /\ UNCHANGED <<keyring, env>>

(* List: the decoded credentials of the loaded table, here kept by the key *)
(* of the record they were decoded from                                    *)
List ==
  /\ UNCHANGED notCred
  /\ \E keyringOk \in BOOLEAN :
      /\ credArg' = Args(NoGUID, "", "")
      /\ LET table == load
         IN  /\ IF loadErr(keyringOk) # "none"
                  THEN /\ credResult' = Result("List", loadErr(keyringOk), NoValue)
                       /\ loaded' = loaded
                ELSE IF \E g \in DOMAIN table : ToCredential(table[g]).err # "none"
                  THEN /\ credResult' = Result("List", "VersionError", NoValue)
                       /\ loaded' = table
                ELSE /\ credResult' = Result("List", "none",
                           [g \in DOMAIN table |-> ToCredential(table[g]).cred])
                     /\ loaded' = table
             /\ UNCHANGED <<keyring, env>>

NextCred ==
    \/ Setenv
    \/ WriteLaterVersion
    \/ Set
    \/ Delete
    \/ Get
    \/ List

----------------------------------------------------------------------------
(* Two threads that call the credential store at the same time. A call is *)
(* a load, work on the loaded table in the thread's memory, and a save;   *)
(* the keyring is read by the load and written by the save, and the other *)
(* thread may run between the two.                                        *)

Threads == {1, 2}

(* uuid.New in thread t: never a value another call has drawn *)
ThreadGUID(t) == MaxStored + t

(* an insertion that reads the keyring again before it inserts *)
withCredential_Reloaded(table, guid, cred) ==
    [g \in DOMAIN load \cup {guid} |->
        IF g = guid THEN CredentialRecord(guid, cred) ELSE load[g]]

(* Set, lines 243-247: table[guid] = CredentialRecord{...} *)
withCredential(table, guid, cred) ==
    [g \in DOMAIN table \cup {guid} |->
        IF g = guid THEN CredentialRecord(guid, cred) ELSE table[g]]

(* Set in thread t up to its save: load, NormalizeServerURL and the *)
(* collision scan of the loaded table                               *)
threadSetLoad(t) ==
    /\ UNCHANGED notThread
    /\ tpc[t] = "idle"
    /\ \E name \in Names, url \in RawURLs :
         LET table == load
             normalizedUrl == NormalizeServerURL(url)
             collisions == SetCollisions(table, name, normalizedUrl)
         IN  /\ tArg' = [tArg EXCEPT ![t] = Args(ThreadGUID(t), name, url)]
             /\ loadErr(TRUE) = "none"
             /\ tTable' = [tTable EXCEPT ![t] = table]
             /\ IF normalizedUrl = BadURL
                  THEN /\ tResult' = [tResult EXCEPT ![t] =
                                        Result("Set", "URLError", NoValue)]
                       /\ tpc' = [tpc EXCEPT ![t] = "done"]
                ELSE IF collisions # {}
                  THEN /\ \E e \in collisions :
                            tResult' = [tResult EXCEPT ![t] =
                                          Result("Set", e, NoValue)]
                       /\ tpc' = [tpc EXCEPT ![t] = "done"]
                ELSE /\ tResult' = tResult
                     /\ tpc' = [tpc EXCEPT ![t] = "Set"]
    /\ UNCHANGED <<keyring, env>>

(* Set in thread t, lines 228-253: the credential is put in the loaded *)
(* table and the table is saved                                        *)
threadSetSave(t) ==
    /\ UNCHANGED notThread
    /\ tpc[t] = "Set"
    /\ LET guid == tArg[t].guid
           cred == Credential(guid, tArg[t].name,
                              NormalizeServerURL(tArg[t].url), "k")
       IN  /\ keyring' = save(withCredential(tTable[t], guid, cred))
           /\ tResult' = [tResult EXCEPT ![t] =
                            Result("Set", "none", [g \in {guid} |-> cred])]
    /\ tpc' = [tpc EXCEPT ![t] = "done"]
    /\ UNCHANGED <<env, tTable, tArg>>

(* Delete in thread t up to its save: load and the two tests of the guid *)
threadDeleteLoad(t) ==
    /\ UNCHANGED notThread
    /\ tpc[t] = "idle"
    /\ \E guid \in NewGUIDs \cup {EnvVarGUID} :
         LET table == load
         IN  /\ tArg' = [tArg EXCEPT ![t] = Args(guid, "", "")]
             /\ loadErr(TRUE) = "none"
             /\ tTable' = [tTable EXCEPT ![t] = table]
             /\ IF guid \notin DOMAIN table
                  THEN /\ tResult' = [tResult EXCEPT ![t] =
                                        Result("Delete", "NotFoundError", NoValue)]
                       /\ tpc' = [tpc EXCEPT ![t] = "done"]
                ELSE IF isEnvVarGUID(guid)
                  THEN /\ tResult' = [tResult EXCEPT ![t] =
                                        Result("Delete", "EnvURLDeleteError", NoValue)]
                       /\ tpc' = [tpc EXCEPT ![t] = "done"]
                ELSE /\ tResult' = tResult
                     /\ tpc' = [tpc EXCEPT ![t] = "Delete"]
    /\ UNCHANGED <<keyring, env>>

(* Delete in thread t, lines 148-149: the record is taken out of the *)
(* loaded table and the table is saved                               *)
threadDeleteSave(t) ==
    /\ UNCHANGED notThread
    /\ tpc[t] = "Delete"
    /\ keyring' = save([g \in DOMAIN tTable[t] \ {tArg[t].guid} |-> tTable[t][g]])
    /\ tResult' = [tResult EXCEPT ![t] = Result("Delete", "none", NoValue)]
    /\ tpc' = [tpc EXCEPT ![t] = "done"]
    /\ UNCHANGED <<env, tTable, tArg>>

NextThread ==
    \/ \E t \in Threads : threadSetLoad(t)
    \/ \E t \in Threads : threadSetSave(t)
    \/ \E t \in Threads : threadDeleteLoad(t)
    \/ \E t \in Threads : threadDeleteSave(t)

----------------------------------------------------------------------------
(* The capability validator: ConnectClient.CheckCapabilities *)

(* a pointer field of the configuration: Nil, or Ptr(v) *)
Nil == << >>
Ptr(v) == <<v>>

(* the values each input takes; the first one is that of BaseInput, a     *)
(* configuration with every section present that passes every check.      *)
(* CPU amounts are in a unit small enough to make them whole numbers.     *)
Options ==
    [ Type |-> <<"python-shiny", "python-fastapi", "html", "quarto">>,
      DescriptionLen |-> <<10, 4096, 4097>>,
      Python |-> <<TRUE, FALSE>>,
      PythonVersion |-> << <<3, 10, 1>>, <<3, 11, 7>>, <<3, 9, 1>>, <<3>>, << >> >>,
      PackageFileExists |-> <<TRUE, FALSE>>,
      Connect |-> <<TRUE, FALSE>>,
      Access |-> <<TRUE, FALSE>>,
      RunAsCurrentUser |-> <<Ptr(TRUE), Ptr(FALSE), Nil>>,
      RunAs |-> <<"user", "">>,
      Runtime |-> <<TRUE, FALSE>>,
      MaxProcesses |-> <<Ptr(2), Ptr(5), Ptr(0), Nil>>,
      MinProcesses |-> <<Ptr(1), Ptr(3), Ptr(5), Ptr(-1), Nil>>,
      Kubernetes |-> <<TRUE, FALSE>>,
      DefaultImageName |-> <<"image", "">>,
      ServiceAccountName |-> <<"account", "">>,
      CPURequest |-> <<Ptr(1), Ptr(3), Ptr(5), Ptr(-1), Nil>>,
      CPULimit |-> <<Ptr(2), Ptr(5), Ptr(0), Nil>>,
      MemoryRequest |-> <<Ptr(1), Ptr(3), Ptr(5), Nil>>,
      MemoryLimit |-> <<Ptr(2), Ptr(5), Nil>>,
      AMDGPULimit |-> <<Ptr(1), Ptr(5), Nil>>,
      NvidiaGPULimit |-> <<Ptr(1), Ptr(5), Nil>>,
      fetchOk |-> <<TRUE, FALSE>>,
      CanAdmin |-> <<TRUE, FALSE>>,
      AllowAPIs |-> <<TRUE, FALSE>>,
      CurrentUserExecution |-> <<TRUE, FALSE>>,
      AppRunAsCurrentUser |-> <<TRUE, FALSE>>,
      LauncherEnabled |-> <<TRUE, FALSE>>,
      ExecutionType |-> <<"Kubernetes", "native">>,
      DefaultImageSelectionEnabled |-> <<TRUE, FALSE>>,
      Installations |-> << << <<3, 10, 1>>, <<3, 11, 2>> >>, << >> >>,
      sMaxCPURequest |-> <<4, 0>>,
      sMaxCPULimit |-> <<4, 0>>,
      sMaxMemoryRequest |-> <<4, 0>>,
      sMaxMemoryLimit |-> <<4, 0>>,
      sMaxAMDGPULimit |-> <<4, 0>>,
      sMaxNvidiaGPULimit |-> <<4, 0>>,
      sCPURequest |-> <<1, 3>>,
      sCPULimit |-> <<2, 0>>,
      sMemoryRequest |-> <<1, 3>>,
      sMemoryLimit |-> <<2, 0>>,
      sMaxProcessesLimit |-> <<4, 0>>,
      sMinProcessesLimit |-> <<4, 0>>,
      sMinProcesses |-> <<1, 3>>,
      sMaxProcesses |-> <<2, 0>> ]

Fields == DOMAIN Options

(* how many inputs differ from BaseInput at most *)
MaxChanges == 2

BaseChoice == [f \in Fields |-> 1]

RECURSIVE Choices(_)
Choices(n) ==
    IF n = 0 THEN {BaseChoice}
    ELSE LET fewer == Choices(n - 1)
         IN  fewer \cup
             UNION { UNION { { [c EXCEPT ![f] = o] : o \in 1..Len(Options[f]) } :
                             f \in Fields } : c \in fewer }

InputOf(c) == [f \in Fields |-> Options[f][c[f]]]
BaseInput == InputOf(BaseChoice)

(* error codes (types.ErrorCode) with the configuration key they name and *)
(* the requested and available versions of VersionNotAvailableDetails    *)
NoData == [requested |-> << >>, available |-> << >>]
NoError == [code |-> "", key |-> "", data |-> NoData]
AgentError(code, key) == [code |-> code, key |-> key, data |-> NoData]
Unchecked == [code |-> "unchecked", key |-> "", data |-> NoData]

(* a run-time panic of the Go code, which ends the call without a result: *)
(* kept as an outcome of its own                                          *)
Panic == [code |-> "panic", key |-> "slice bounds out of range", data |-> NoData]

(* the first error of a sequence of checks run one after another, each *)
(* returning at once when it fails                                     *)
RECURSIVE FirstError(_)
FirstError(checks) ==
    IF checks = << >> THEN NoError
    ELSE IF Head(checks) # NoError THEN Head(checks)
    ELSE FirstError(Tail(checks))

(* config.ContentType.IsAPIContent, IsAppContent, AppMode.IsStaticContent *)
IsAPIContent(t) == t = "python-fastapi"
IsAppContent(t) == t = "python-shiny"
IsStaticContent(t) == t = "html"

checkRequirementsFile(in) ==
    IF ~in.PackageFileExists
      THEN AgentError("requirementFileMissing", "")
      ELSE NoError

(* majorMinorVersion: strings.Split(version, ".")[:2]; the slice of a *)
(* version of one component has length and capacity 1, and [:2] of it *)
(* panics                                                             *)
majorMinorPanics(version) == Len(version) < 2
majorMinorVersion(version) == SubSeq(version, 1, 2)

(* newPythonNotAvailableErr: the versions of the installations, appended *)
(* one by one in the order of the list                                   *)
newPythonNotAvailableErr(requested, installations) ==
    [code |-> "pythonNotAvailable", key |-> "",
     data |-> [requested |-> requested,
               available |-> [i \in 1..Len(installations) |-> installations[i]]]]

checkMatchingPython(in, version) ==
    IF version = << >> THEN NoError
    ELSE IF majorMinorPanics(version) THEN Panic
    ELSE IF \E i \in 1..Len(in.Installations) :
              majorMinorVersion(in.Installations[i]) = majorMinorVersion(version)
      THEN NoError
      ELSE newPythonNotAvailableErr(majorMinorVersion(version), in.Installations)

(* a checkMaxInt that takes a limit of zero for a maximum of zero *)
checkMaxInt_ZeroIsMaximum(attr, valuePtr, limit) ==
    IF valuePtr = Nil THEN NoError
    ELSE IF valuePtr[1] < 0 \/ valuePtr[1] > limit
      THEN AgentError("valueOutOfRange", attr)
      ELSE NoError

checkMaxInt(attr, valuePtr, limit) ==
    IF valuePtr = Nil THEN NoError
    ELSE IF limit = 0 THEN NoError
    ELSE IF valuePtr[1] < 0 \/ valuePtr[1] > limit
      THEN AgentError("valueOutOfRange", attr)
      ELSE NoError

checkMaxFloat(attr, valuePtr, limit) ==
    IF valuePtr = Nil THEN NoError
    ELSE IF limit = 0 THEN NoError
    ELSE IF valuePtr[1] < 0 \/ valuePtr[1] > limit
      THEN AgentError("valueOutOfRange", attr)
      ELSE NoError

(* a comparison of min against max that reports the generic range code *)
checkMinMaxIntWithDefaults_RangeCode(minAttr, cfgMin, defaultMin, maxAttr, cfgMax, defaultMax) ==
    LET minValue == IF cfgMin # Nil THEN cfgMin[1] ELSE defaultMin
        maxValue == IF cfgMax # Nil THEN cfgMax[1] ELSE defaultMax
    IN  IF maxValue = 0 THEN NoError
        ELSE IF minValue > maxValue THEN AgentError("valueOutOfRange", minAttr)
        ELSE NoError

checkMinMaxIntWithDefaults(minAttr, cfgMin, defaultMin, maxAttr, cfgMax, defaultMax) ==
    LET minValue == IF cfgMin # Nil THEN cfgMin[1] ELSE defaultMin
        maxValue == IF cfgMax # Nil THEN cfgMax[1] ELSE defaultMax
    IN  IF maxValue = 0 THEN NoError
        ELSE IF minValue > maxValue THEN AgentError("minGreaterThanMax", minAttr)
        ELSE NoError

checkMinMaxFloatWithDefaults(minAttr, cfgMin, defaultMin, maxAttr, cfgMax, defaultMax) ==
    LET minValue == IF cfgMin # Nil THEN cfgMin[1] ELSE defaultMin
        maxValue == IF cfgMax # Nil THEN cfgMax[1] ELSE defaultMax
    IN  IF maxValue = 0 THEN NoError
        ELSE IF minValue > maxValue THEN AgentError("minGreaterThanMax", minAttr)
        ELSE NoError

(* checkKubernetes, lines 165-176: licensing, enablement, permissions *)
checkKubernetesEnabled(in) ==
    IF ~in.LauncherEnabled THEN AgentError("kubernetesNotLicensed", "")
    ELSE IF in.ExecutionType # "Kubernetes"
      THEN AgentError("kubernetesNotConfigured", "")
    ELSE IF in.DefaultImageName # "" /\ ~in.DefaultImageSelectionEnabled
      THEN AgentError("imageSelectionNotEnabled", "")
    ELSE IF in.ServiceAccountName # "" /\ ~in.CanAdmin
      THEN AgentError("adminPrivilegesRequired", "service-account-name")
    ELSE NoError

(* checkKubernetes, lines 178-211: the maxima, then requests against limits *)
checkKubernetesLimits(in) ==
    FirstError(<<
        checkMaxFloat("cpu-request", in.CPURequest, in.sMaxCPURequest),
        checkMaxFloat("cpu-limit", in.CPULimit, in.sMaxCPULimit),
        checkMaxInt("memory-request", in.MemoryRequest, in.sMaxMemoryRequest),
        checkMaxInt("memory-limit", in.MemoryLimit, in.sMaxMemoryLimit),
        checkMaxInt("amd-gpu-limit", in.AMDGPULimit, in.sMaxAMDGPULimit),
        checkMaxInt("nvidia-gpu-limit", in.NvidiaGPULimit, in.sMaxNvidiaGPULimit),
        checkMinMaxFloatWithDefaults("cpu-request", in.CPURequest, in.sCPURequest,
                                     "cpu-limit", in.CPULimit, in.sCPULimit),
        checkMinMaxIntWithDefaults("memory-request", in.MemoryRequest, in.sMemoryRequest,
                                   "memory-limit", in.MemoryLimit, in.sMemoryLimit) >>)

checkKubernetes(in) ==
    IF ~in.Kubernetes THEN NoError
    ELSE FirstError(<<checkKubernetesEnabled(in), checkKubernetesLimits(in)>>)

(* checkRuntime, lines 224-239: the process-count maxima, then min against max *)
checkRuntimeLimits(in) ==
    FirstError(<<
        checkMaxInt("max-processes", in.MaxProcesses, in.sMaxProcessesLimit),
        checkMaxInt("min-processes", in.MinProcesses, in.sMinProcessesLimit),
        checkMinMaxIntWithDefaults("min-processes", in.MinProcesses, in.sMinProcesses,
                                   "max-processes", in.MaxProcesses, in.sMaxProcesses) >>)

checkRuntime(in) ==
    IF ~in.Runtime THEN NoError
    ELSE IF IsStaticContent(in.Type)
      THEN AgentError("runtimeSettingsForStaticContent", "")
    ELSE checkRuntimeLimits(in)

checkAccess(in) ==
    IF ~in.Access THEN NoError
    ELSE IF in.RunAsCurrentUser = Ptr(TRUE) /\ ~in.CurrentUserExecution
      THEN AgentError("currentUserExecutionNotLicensed", "")
    ELSE IF in.RunAsCurrentUser = Ptr(TRUE) /\ ~in.AppRunAsCurrentUser
      THEN AgentError("currentUserExecutionNotConfigured", "")
    ELSE IF in.RunAsCurrentUser = Ptr(TRUE) /\ ~in.CanAdmin
      THEN AgentError("adminPrivilegesRequired", "run-as-current-user")
    ELSE IF in.RunAsCurrentUser = Ptr(TRUE) /\ ~IsAppContent(in.Type)
      THEN AgentError("onlyAppsCanRACU", "")
    ELSE IF in.RunAs # "" /\ ~in.CanAdmin
      THEN AgentError("adminPrivilegesRequired", "run-as")
    ELSE NoError

(* a checkConfig that checks Kubernetes before the runtime section *)
checkConnect_KubernetesFirst(in) ==
    FirstError(<<checkAccess(in), checkKubernetes(in), checkRuntime(in)>>)

(* checkConfig, lines 286-299: the checks of the Connect section *)
checkConnect(in) ==
    FirstError(<<checkAccess(in), checkRuntime(in), checkKubernetes(in)>>)

checkConfig(in) ==
    IF IsAPIContent(in.Type) /\ ~in.AllowAPIs
      THEN AgentError("apisNotLicensed", "")
    ELSE IF in.DescriptionLen > 4096
      THEN AgentError("descriptionTooLong", "")
    ELSE IF in.Python /\ checkMatchingPython(in, in.PythonVersion) # NoError
      THEN checkMatchingPython(in, in.PythonVersion)
    ELSE IF in.Connect THEN checkConnect(in)
    ELSE NoError

CheckCapabilitiesResult(in) ==
    IF in.Python /\ checkRequirementsFile(in) # NoError
      THEN checkRequirementsFile(in)
    ELSE IF ~in.fetchOk THEN AgentError("unknown", "")
    ELSE checkConfig(in)

(* AppModeFromType: the server's name of the content type *)
AppModeFromType(t) ==
    CASE t = "html" -> "static"
      [] t = "quarto" -> "quarto-shiny"
      [] OTHER -> t

(* a GET request: the endpoint and what getSettings appends to it *)
clientGet(endpoint, suffix) == <<endpoint, suffix>>

(* a scheduler path that names the application mode for every content *)
schedulerPath_AlwaysScoped(in) == "/" \o AppModeFromType(in.Type)

(* getSettings, lines 80-86: the scheduler path is empty for static *)
(* content and "/" + appMode for the other content                  *)
schedulerPath(in) ==
    IF ~IsStaticContent(in.Type)
      THEN "/" \o AppModeFromType(in.Type)
      ELSE ""

(* getSettings: the requests in the order they are sent; an error of one *)
(* ends the sequence                                                     *)
getSettings(in) ==
    << clientGet("/__api__/v1/user", ""),
       clientGet("/__api__/server_settings", ""),
       clientGet("/__api__/server_settings/applications", ""),
       clientGet("/__api__/server_settings/scheduler", schedulerPath(in)),
       clientGet("/__api__/v1/server_settings/python", ""),
       clientGet("/__api__/v1/server_settings/r", ""),
       clientGet("/__api__/v1/server_settings/quarto", "") >>

CheckCapabilities ==
    /\ UNCHANGED notCap
    /\ capResult = Unchecked
    /\ capResult' = CheckCapabilitiesResult(capInput)
    /\ IF capInput.Python /\ checkRequirementsFile(capInput) # NoError
         THEN requests' = << >>
       ELSE IF capInput.fetchOk
         THEN requests' = getSettings(capInput)
       ELSE \E failed \in 1..Len(getSettings(capInput)) :
              requests' = SubSeq(getSettings(capInput), 1, failed)
    /\ capInput' = capInput

NextCap ==
    \/ CheckCapabilities

----------------------------------------------------------------------------
(* The archive builder: bundler.makeBundle and bundle.walkFunc *)

(* Paths are sequences of names, absolute from the root of the file system *)
BaseDir == <<"proj">>
ExtDir == <<"ext">>
Front(p) == SubSeq(p, 1, Len(p) - 1)
Last(p) == p[Len(p)]

(* the names of directory entries, in the order ReadDir returns them *)
NameOrder == <<"d", "f", "g", "h", "l", "s">>
EntryNames == { NameOrder[i] : i \in 1..Len(NameOrder) }

Dir == [kind |-> "dir", target |-> << >>]
File == [kind |-> "file", target |-> << >>]
Other == [kind |-> "other", target |-> << >>]
Link(target) == [kind |-> "link", target |-> target]
NoNode == [kind |-> "missing", target |-> << >>]

(* a directory outside the project: a file h and a subdirectory s holding g *)
ExtTree ==
    (<<"ext">> :> Dir) @@ (<<"ext", "h">> :> File) @@
    (<<"ext", "s">> :> Dir) @@ (<<"ext", "s", "g">> :> File)

(* the project directory: a file f or none, a directory d holding a file g *)
(* or none, and at l nothing, a link, or a file that is not a regular one  *)
ProjTree(f, d, l) ==
    (<<"proj">> :> Dir)
    @@ (IF f THEN <<"proj", "f">> :> File ELSE << >>)
    @@ (IF d THEN (<<"proj", "d">> :> Dir) @@ (<<"proj", "d", "g">> :> File)
             ELSE << >>)
    @@ (CASE l = "none" -> << >>
          [] l = "other" -> <<"proj", "l">> :> Other
          [] l = "to ext" -> <<"proj", "l">> :> Link(ExtDir)
          [] l = "to d" -> <<"proj", "l">> :> Link(<<"proj", "d">>)
          [] l = "to h" -> <<"proj", "l">> :> Link(<<"ext", "h">>)
          [] l = "broken" -> <<"proj", "l">> :> Link(<<"ext", "f">>))

Trees ==
    { ProjTree(f, d, l) @@ ExtTree :
        f \in BOOLEAN, d \in BOOLEAN,
        l \in {"none", "other", "to ext", "to d", "to h", "broken"} }

IgnoreLists == {{}, {"g"}, {"h"}, {"s"}, {"l"}, {"d"}}

(* filepath.EvalSymlinks: the path with every link on it followed, or *)
(* Missing when it names nothing                                      *)
Missing == <<"?">>
RECURSIVE EvalSymlinks(_)
EvalSymlinks(p) ==
    IF p = << >> THEN << >>
    ELSE LET parent == EvalSymlinks(Front(p))
             q == parent \o <<Last(p)>>
         IN  IF parent = Missing \/ q \notin DOMAIN tree THEN Missing
             ELSE IF tree[q].kind = "link" THEN EvalSymlinks(tree[q].target)
             ELSE q

(* os.Lstat: the node a path names, its last element not followed *)
Lstat(p) ==
    LET parent == EvalSymlinks(Front(p))
        q == parent \o <<Last(p)>>
    IN  IF parent = Missing \/ q \notin DOMAIN tree THEN NoNode ELSE tree[q]

(* fs.Stat: the node a path names, links followed *)
Stat(p) ==
    IF EvalSymlinks(p) = Missing THEN NoNode ELSE tree[EvalSymlinks(p)]

(* afero.ReadDir: the names of the entries of a directory, sorted *)
ReadDir(p) ==
    SelectSeq(NameOrder, LAMBDA n : EvalSymlinks(p) \o <<n>> \in DOMAIN tree)

(* the length of the longest common prefix of two paths *)
RECURSIVE CommonPrefix(_, _)
CommonPrefix(a, b) ==
    IF a = << >> \/ b = << >> \/ Head(a) # Head(b) THEN 0
    ELSE 1 + CommonPrefix(Tail(a), Tail(b))

(* a Rel that leaves the path as it is *)
Rel_Absolute(base, path) == path

(* filepath.Rel: the path relative to base; the empty path stands for "." *)
Rel(base, path) ==
    LET k == CommonPrefix(base, path)
    IN  [i \in 1..(Len(base) - k) |-> ".."] \o SubSeq(path, k + 1, Len(path))

(* the walker built from the ignore list: whether it leaves a path out, *)
(* which it does when a rule names the file or a directory above it     *)
Excluded(path) ==
    \E i \in 1..Len(Rel(BaseDir, path)) : Rel(BaseDir, path)[i] \in ignores

Header(name, isDir) == [name |-> name, dir |-> isDir]
ManifestFilename == <<"manifest.json">>

(* a writeHeaderToTar that does not test whether there is an archive *)
writeHeaderToTar_NoArchiveTest(isDir, relPath) ==
    IF relPath = << >> THEN headers
    ELSE Append(headers, Header(relPath, isDir))

(* writeHeaderToTar: nothing without an archive, nothing for the root *)
writeHeaderToTar(isDir, relPath) ==
    IF ~archive \/ relPath = << >> THEN headers
    ELSE Append(headers, Header(relPath, isDir))

(* walkFunc on a directory: its header; the walker then visits its entries *)
walkDir(path) ==
    /\ headers' = writeHeaderToTar(TRUE, Rel(BaseDir, path))
    /\ todo' = [i \in 1..Len(ReadDir(path)) |-> path \o <<ReadDir(path)[i]>>]
               \o Tail(todo)
    /\ UNCHANGED <<manifest, added, bundleErr>>

(* walkFunc on a regular file: header, contents, manifest.AddFile *)
walkRegular(path) ==
    /\ headers' = writeHeaderToTar(FALSE, Rel(BaseDir, path))
    /\ manifest' = manifest \cup {Rel(BaseDir, path)}
    /\ added' = Append(added, Rel(BaseDir, path))
    /\ todo' = Tail(todo)
    /\ bundleErr' = bundleErr

(* walkFunc on anything else: "Skipping non-regular file" *)
walkSkip ==
    /\ todo' = Tail(todo)
    /\ UNCHANGED <<manifest, added, headers, bundleErr>>

(* walkFunc/visit on an error: the walk stops *)
walkError(e) ==
    /\ todo' = << >>
    /\ bundleErr' = e
    /\ UNCHANGED <<manifest, added, headers>>

(* a walk of the entries of a link target under the resolved path *)
subPath_Resolved(path, name) == EvalSymlinks(path) \o <<name>>

(* walkFunc line 233, visit line 67: the entry's path goes through the link *)
subPath(path, name) == path \o <<name>>

(* the entries of the directory a link points to, as paths to walk *)
linkEntries(path) ==
    [i \in 1..Len(ReadDir(path)) |-> subPath(path, ReadDir(path)[i])]

(* makeBundle: start the walk of the base directory *)
makeBundle ==
    /\ UNCHANGED notBundle
    /\ bpc = "makeBundle"
    /\ bpc' = "walk"
    /\ todo' = <<BaseDir>>
    /\ UNCHANGED <<tree, ignores, walkerKind, archive, manifest, added, headers,
                   bundleErr>>

(* the walker leaves out a path an ignore rule matches, and with it *)
(* everything below                                                 *)
WalkExcluded ==
    /\ UNCHANGED notBundle
    /\ bpc = "walk" /\ todo # << >>
    /\ Excluded(Head(todo))
    /\ walkSkip
    /\ UNCHANGED <<tree, ignores, walkerKind, archive, bpc>>

(* walkFunc, lines 195-199: a directory *)
walkFuncDir ==
    /\ UNCHANGED notBundle
    /\ bpc = "walk" /\ todo # << >>
    /\ ~Excluded(Head(todo))
    /\ Lstat(Head(todo)).kind = "dir"
    /\ walkDir(Head(todo))
    /\ UNCHANGED <<tree, ignores, walkerKind, archive, bpc>>

(* walkFunc, lines 200-212: a regular file *)
walkFuncRegular ==
    /\ UNCHANGED notBundle
    /\ bpc = "walk" /\ todo # << >>
    /\ ~Excluded(Head(todo))
    /\ Lstat(Head(todo)).kind = "file"
    /\ walkRegular(Head(todo))
    /\ UNCHANGED <<tree, ignores, walkerKind, archive, bpc>>

(* walkFunc, lines 213-245: a symbolic link. The entries of a directory *)
(* target are walked under the link; any other target is handled at the *)
(* link's path                                                          *)
walkFuncSymlink ==
    /\ UNCHANGED notBundle
    /\ bpc = "walk" /\ todo # << >>
    /\ walkerKind = "walkFunc"
    /\ ~Excluded(Head(todo))
    /\ Lstat(Head(todo)).kind = "link"
    /\ LET path == Head(todo)
           targetInfo == Stat(path)
       IN  CASE targetInfo.kind = "missing" -> walkError("Error following symlink")
             [] targetInfo.kind = "dir" ->
                  /\ todo' = linkEntries(path) \o Tail(todo)
                  /\ UNCHANGED <<manifest, added, headers, bundleErr>>
             [] targetInfo.kind = "file" -> walkRegular(path)
             [] OTHER -> walkSkip
    /\ UNCHANGED <<tree, ignores, walkerKind, archive, bpc>>

(* symlinkWalker.visit: the callback gets the link's path with the info of *)
(* the target, then the entries of a directory target are walked under the *)
(* link                                                                    *)
visit ==
    /\ UNCHANGED notBundle
    /\ bpc = "walk" /\ todo # << >>
    /\ walkerKind = "symlinkWalker"
    /\ ~Excluded(Head(todo))
    /\ Lstat(Head(todo)).kind = "link"
    /\ LET path == Head(todo)
           targetInfo == Stat(path)
       IN  CASE targetInfo.kind = "missing" -> walkError("error following symlink")
             [] targetInfo.kind = "dir" ->
                  /\ headers' = writeHeaderToTar(TRUE, Rel(BaseDir, path))
                  /\ todo' = linkEntries(path) \o Tail(todo)
                  /\ UNCHANGED <<manifest, added, bundleErr>>
             [] targetInfo.kind = "file" -> walkRegular(path)
             [] OTHER -> walkSkip
    /\ UNCHANGED <<tree, ignores, walkerKind, archive, bpc>>

(* walkFunc, lines 246-248: neither directory, regular file nor link *)
walkFuncOther ==
    /\ UNCHANGED notBundle
    /\ bpc = "walk" /\ todo # << >>
    /\ ~Excluded(Head(todo))
    /\ Lstat(Head(todo)).kind = "other"
    /\ walkSkip
    /\ UNCHANGED <<tree, ignores, walkerKind, archive, bpc>>

(* makeBundle, lines 121-132: the walk has ended; with an archive and no *)
(* error the manifest is appended as the last entry                      *)
addManifest ==
    /\ UNCHANGED notBundle
    /\ bpc = "walk" /\ todo = << >>
    /\ bpc' = "done"
    /\ headers' = IF archive /\ bundleErr = "none"
                    THEN Append(headers, Header(ManifestFilename, FALSE))
                    ELSE headers
    /\ UNCHANGED <<tree, ignores, walkerKind, archive, todo, manifest, added,
                   bundleErr>>

NextBundle ==
    \/ makeBundle
    \/ WalkExcluded
    \/ walkFuncDir
    \/ walkFuncRegular
    \/ walkFuncSymlink
    \/ visit
    \/ walkFuncOther
    \/ addManifest

----------------------------------------------------------------------------
(* The inspectors: resolution of the R and the Python executable *)

(* the names looked up on the search path, in the order they are tried *)
ExecutableNames(inspector) ==
    IF inspector = "R" THEN <<"R">> ELSE <<"python3", "python">>

(* the inputs: the inspector, the executable the user gave ("" for none)  *)
(* and what Exists() says of it, the names LookPath finds and the names   *)
(* whose program runs with --version                                      *)
ExeInputs ==
    [inspector : {"R", "python"},
     executable : {"", "/opt/bin/exe"},
     exists : {"yes", "no", "error"},
     onPath : SUBSET {"R", "python3", "python"},
     runs : SUBSET {"R", "python3", "python"}]

NoExeInput ==
    [inspector |-> "R", executable |-> "", exists |-> "no", onPath |-> {},
     runs |-> {}]

Executable(path, e) == [path |-> path, err |-> e]
NotResolved == Executable("", "not resolved")

(* pathLooker.LookPath: the path of the program of that name *)
LookPath(name) == "/some/" \o name

(* a validation that runs nothing *)
validateRExecutable_NotRun(in, name) == "none"

(* validateRExecutable, validateExecutable: RunCommand(path, "--version") *)
validateRExecutable(in, name) ==
    IF name \in in.runs THEN "none" ELSE "could not run executable"

(* the branch of both inspectors for an executable the user gave *)
userProvided(in) ==
    CASE in.exists = "error" -> Executable("", "stat error")
      [] in.exists = "yes" -> Executable(in.executable, "none")
      [] OTHER -> Executable("", "ErrNotExist")

(* one name of the search: LookPath, then the validation if it was found *)
tryName(in, name) ==
    IF name \notin in.onPath THEN Executable("", "not found on PATH")
    ELSE IF validateRExecutable(in, name) # "none"
      THEN Executable("", validateRExecutable(in, name))
    ELSE Executable(LookPath(name), "none")

(* getPythonExecutable: the names in order, the first that is found and *)
(* runs; the error of the last one when none does                       *)
RECURSIVE firstRunnable(_, _, _)
firstRunnable(in, names, last) ==
    IF names = << >> THEN last
    ELSE IF tryName(in, Head(names)).err = "none" THEN tryName(in, Head(names))
    ELSE firstRunnable(in, Tail(names), tryName(in, Head(names)))

getRExecutable ==
    /\ UNCHANGED notExe
    /\ exeInput.inspector = "R"
    /\ exeResult = NotResolved
    /\ exeResult' = IF exeInput.executable # ""
                      THEN userProvided(exeInput)
                      ELSE tryName(exeInput, "R")
    /\ exeInput' = exeInput

getPythonExecutable ==
    /\ UNCHANGED notExe
    /\ exeInput.inspector = "python"
    /\ exeResult = NotResolved
    /\ exeResult' = IF exeInput.executable # ""
                      THEN userProvided(exeInput)
                      ELSE firstRunnable(exeInput, ExecutableNames("python"),
                                         NotResolved)
    /\ exeInput' = exeInput

NextExe ==
    \/ getRExecutable
    \/ getPythonExecutable

----------------------------------------------------------------------------
(* The PyShiny detector: pyShinyDetector.InferType *)

(* File names are sequences of characters. The characters of the stems: *)
(* a letter, a digit and the underscore; the extension is ".py"         *)
StemChars == {"a", "1", "_"}
Extension == <<".", "p", "y">>

(* how long the stem of a file name is at most *)
MaxStem == 2

RECURSIVE Stems(_)
Stems(n) ==
    IF n = 0 THEN {<< >>}
    ELSE Stems(n - 1) \cup { Append(st, c) : st \in Stems(n - 1), c \in StemChars }

PyFiles ==
    [name : { st \o Extension : st \in Stems(MaxStem) \ {<< >>} },
     content : {"no import", "import shiny", "import shiny.express", "unreadable"}]

(* what Glob("*.py") can return: no file, one, or two of different names *)
Globs ==
    {<< >>} \cup { <<f>> : f \in PyFiles }
            \cup { p \in PyFiles \X PyFiles : p[1].name # p[2].name }

(* fmt.Sprintf("%x", int(match[0])): the byte in hexadecimal *)
Hex(c) ==
    CASE c = "_" -> "5f"
      [] c = "." -> "2e"
      [] c = "1" -> "31"
      [] c = "a" -> "61"
      [] c = "p" -> "70"
      [] c = "y" -> "79"

(* an expression for the characters to replace that lets the underscore *)
(* stand                                                                *)
invalidPythonIdentifierRE_KeepUnderscore(entrypoint, i) ==
    \/ i = 1 /\ entrypoint[i] = "1"
    \/ entrypoint[i] \notin {"a", "p", "y", "1", "_"}

(* invalidPythonIdentifierRE, (^[0-9]|[^A-Za-z0-9]): whether the character *)
(* at place i matches                                                      *)
invalidPythonIdentifierRE(entrypoint, i) ==
    \/ i = 1 /\ entrypoint[i] = "1"
    \/ entrypoint[i] \notin {"a", "p", "y", "1"}

(* shinyExpressEntrypoint: the prefix, then for each character of the path *)
(* the character itself or, where the expression matches, "_%x_" of it     *)
shinyExpressEntrypoint(entrypoint) ==
    <<"shiny.express.app:">> \o
    [i \in 1..Len(entrypoint) |->
        IF invalidPythonIdentifierRE(entrypoint, i)
          THEN "_" \o Hex(entrypoint[i]) \o "_"
          ELSE entrypoint[i]]

Inferred(cfgs, e) == [configs |-> cfgs, err |-> e]
NotInferred == Inferred(<< >>, "not inferred")

(* the loop of InferType over the files: a file that does not import shiny *)
(* ends it with no configuration at all, a file that cannot be read with   *)
(* an error                                                                *)
RECURSIVE inferLoop(_, _)
inferLoop(paths, cfgs) ==
    IF paths = << >> THEN Inferred(cfgs, "none")
    ELSE LET path == Head(paths)
         IN  IF path.content = "unreadable" THEN Inferred(<< >>, "read error")
             ELSE IF path.content = "no import" THEN Inferred(<< >>, "none")
             ELSE inferLoop(Tail(paths),
                    Append(cfgs,
                      [Entrypoint |-> IF path.content = "import shiny.express"
                                        THEN shinyExpressEntrypoint(path.name)
                                        ELSE path.name,
                       Type |-> "python-shiny"]))

InferType ==
    /\ UNCHANGED notDet
    /\ configs = NotInferred
    /\ configs' = inferLoop(entrypointPaths, << >>)
    /\ entrypointPaths' = entrypointPaths

NextDet ==
    \/ InferType

----------------------------------------------------------------------------
(* The editor service: Service.start, Service.stop and its StateManager *)

(* how many calls of start() and stop() are in progress at most *)
MaxCalls == 2
Calls == 1..MaxCalls

(* a call: start or stop, the place it stands at (idle when it has ended), *)
(* which of its two transitions it is at and how it ended                  *)
Call(op, at, step, result) == [op |-> op, pc |-> at, step |-> step, result |-> result]
NoCall == Call("none", "idle", 1, "none")

(* the states check() is called with *)
Expected(op) == IF op = "start" THEN {"RUNNING"} ELSE {"NEW", "TERMINATED", "FAILED"}

(* the two transitions of start and of stop: current and next *)
Transitions(op) ==
    IF op = "start" THEN << <<"NEW", "STARTING">>, <<"STARTING", "RUNNING">> >>
                    ELSE << <<"RUNNING", "STOPPING">>, <<"STOPPING", "NEW">> >>

(* a transition that runs the callback whatever the state is *)
matches_Always(s, current) == TRUE

(* transition, line 52: "if (this.state === current)" *)
matches(s, current) == s = current

(* transition, lines 52-67, once it holds the lock, from state s. The  *)
(* callback returns, throws an Error, which is thrown again, or throws *)
(* another value, which sets FAILED and is not thrown again; in a      *)
(* state that is not current an Error is thrown                        *)
transitionEnds(s, current, next) ==
    IF matches(s, current)
      THEN { [state |-> next, thrown |-> FALSE, called |-> TRUE],
             [state |-> s, thrown |-> TRUE, called |-> FALSE],
             [state |-> "FAILED", thrown |-> FALSE, called |-> FALSE] }
      ELSE { [state |-> s, thrown |-> TRUE, called |-> FALSE] }

(* start() is called *)
start(c) ==
    /\ UNCHANGED notService
    /\ call[c].pc = "idle"
    /\ call' = [call EXCEPT ![c] = Call("start", "check", 1, "pending")]
    /\ UNCHANGED <<state, lock, assistant>>

(* stop() is called *)
stop(c) ==
    /\ UNCHANGED notService
    /\ call[c].pc = "idle"
    /\ call' = [call EXCEPT ![c] = Call("stop", "check", 1, "pending")]
    /\ UNCHANGED <<state, lock, assistant>>

(* check, lines 22-43: with the lock, whether the state is one of those *)
(* given; start and stop return when it is                              *)
check(c) ==
    /\ UNCHANGED notService
    /\ call[c].pc = "check"
    /\ lock = 0
    /\ call' = [call EXCEPT ![c] =
                  IF state \in Expected(call[c].op)
                    THEN Call(call[c].op, "idle", 1, "returned")
                    ELSE Call(call[c].op, "transition", 1, "pending")]
    /\ UNCHANGED <<state, lock, assistant>>

(* transition, lines 48-56: the lock is taken; in the current state the *)
(* callback is awaited with the lock held, in another one the Error is  *)
(* thrown, the lock released and the call ends                          *)
transition(c) ==
    /\ UNCHANGED notService
    /\ call[c].pc = "transition"
    /\ lock = 0
    /\ IF matches(state, Transitions(call[c].op)[call[c].step][1])
         THEN /\ lock' = c
              /\ call' = [call EXCEPT ![c].pc = "callback"]
         ELSE /\ lock' = lock
              /\ call' = [call EXCEPT ![c] = Call(call[c].op, "idle", 1, "rejected")]
    /\ UNCHANGED <<state, assistant>>

(* transition, lines 53-70: the callback has ended; the state is set, the *)
(* lock released, and the call goes on to its second transition or ends   *)
callback(c) ==
    /\ UNCHANGED notService
    /\ call[c].pc = "callback"
    /\ lock = c
    /\ \E end \in transitionEnds(state, Transitions(call[c].op)[call[c].step][1],
                                 Transitions(call[c].op)[call[c].step][2]) :
         /\ state' = end.state
         /\ assistant' =
              IF ~end.called \/ call[c].step # 1 THEN assistant
              ELSE IF call[c].op = "stop" THEN "stopped"
              ELSE IF assistant = "stopped" THEN "started" ELSE "started twice"
         /\ call' = [call EXCEPT ![c] =
                       IF end.thrown THEN Call(call[c].op, "idle", 1, "rejected")
                       ELSE IF call[c].step = 1
                         THEN Call(call[c].op, "transition", 2, "pending")
                       ELSE Call(call[c].op, "idle", 1, "returned")]
    /\ lock' = 0

NextService ==
    \/ \E c \in Calls : start(c)
    \/ \E c \in Calls : stop(c)
    \/ \E c \in Calls : check(c)
    \/ \E c \in Calls : transition(c)
    \/ \E c \in Calls : callback(c)

----------------------------------------------------------------------------
(* Specifications *)

(* the state before a publish *)
InitPublish ==
    /\ pc = "publish"
    /\ Target \in {NilTarget, PreDeployment, OldDeployed(NoErr),
                   OldDeployed(AsAgentErrForOperation(PublishDeployBundleOp, "deployFailed"))}
    /\ prevType \in IF Target.present THEN {"same", "changed", "no configuration"}
                                      ELSE {"no configuration"}
    /\ Validate \in BOOLEAN
    /\ knownID = Target.ID
    /\ IF Target.present
         THEN SaveName = "" /\ TargetName = "dep"
         ELSE SaveName = "dep" /\ TargetName = ""
    /\ disk = [n \in SavedNames |-> IF Target.present THEN Target ELSE NoRecord]
    /\ contentID = ""
    /\ bundleID = ""
    /\ gotBundle = ""
    /\ err = NoErr
    /\ events = << >>
    /\ calls = << >>
    /\ stages = << >>
    /\ returned = "none"
    /\ keyring = EmptyTable
    /\ env = [server |-> "", apiKey |-> ""]
    /\ loaded = EmptyTable
    /\ credResult = Result("none", "none", NoValue)
    /\ credArg = Args(NoGUID, "", "")
    /\ capInput = BaseInput
    /\ capResult = Unchecked
    /\ requests = << >>
    /\ tree = ExtTree
    /\ ignores = {}
    /\ walkerKind = "walkFunc"
    /\ archive = FALSE
    /\ todo = << >>
    /\ manifest = {}
    /\ added = << >>
    /\ headers = << >>
    /\ bundleErr = "none"
    /\ bpc = "idle"
    /\ opc = "idle"
    /\ oTarget = NilTarget
    /\ tpc = [t \in Threads |-> "idle"]
    /\ tTable = [t \in Threads |-> EmptyTable]
    /\ tArg = [t \in Threads |-> Args(NoGUID, "", "")]
    /\ tResult = [t \in Threads |-> Result("none", "none", NoValue)]
    /\ exeInput = NoExeInput
    /\ exeResult = NotResolved
    /\ entrypointPaths = << >>
    /\ configs = NotInferred
    /\ loadedTarget = Target
    /\ state = "NEW"
    /\ lock = 0
    /\ call = [c \in Calls |-> NoCall]
    /\ assistant = "stopped"

(* the state of an empty credential store *)
InitCred ==
    /\ pc = "idle"
    /\ Target = NilTarget
    /\ prevType = "no configuration"
    /\ Validate = FALSE
    /\ knownID = ""
    /\ SaveName = ""
    /\ TargetName = ""
    /\ disk = [n \in SavedNames |-> NoRecord]
    /\ contentID = ""
    /\ bundleID = ""
    /\ gotBundle = ""
    /\ err = NoErr
    /\ events = << >>
    /\ calls = << >>
    /\ stages = << >>
    /\ returned = "none"
    /\ keyring = EmptyTable
    /\ env = [server |-> "", apiKey |-> ""]
    /\ loaded = EmptyTable
    /\ credResult = Result("none", "none", NoValue)
    /\ credArg = Args(NoGUID, "", "")
    /\ capInput = BaseInput
    /\ capResult = Unchecked
    /\ requests = << >>
    /\ tree = ExtTree
    /\ ignores = {}
    /\ walkerKind = "walkFunc"
    /\ archive = FALSE
    /\ todo = << >>
    /\ manifest = {}
    /\ added = << >>
    /\ headers = << >>
    /\ bundleErr = "none"
    /\ bpc = "idle"
    /\ opc = "idle"
    /\ oTarget = NilTarget
    /\ tpc = [t \in Threads |-> "idle"]
    /\ tTable = [t \in Threads |-> EmptyTable]
    /\ tArg = [t \in Threads |-> Args(NoGUID, "", "")]
    /\ tResult = [t \in Threads |-> Result("none", "none", NoValue)]
    /\ exeInput = NoExeInput
    /\ exeResult = NotResolved
    /\ entrypointPaths = << >>
    /\ configs = NotInferred
    /\ loadedTarget = Target
    /\ state = "NEW"
    /\ lock = 0
    /\ call = [c \in Calls |-> NoCall]
    /\ assistant = "stopped"

(* the configurations and server settings the validator is given *)
InitCap ==
    /\ pc = "idle"
    /\ Target = NilTarget
    /\ prevType = "no configuration"
    /\ Validate = FALSE
    /\ knownID = ""
    /\ SaveName = ""
    /\ TargetName = ""
    /\ disk = [n \in SavedNames |-> NoRecord]
    /\ contentID = ""
    /\ bundleID = ""
    /\ gotBundle = ""
    /\ err = NoErr
    /\ events = << >>
    /\ calls = << >>
    /\ stages = << >>
    /\ returned = "none"
    /\ keyring = EmptyTable
    /\ env = [server |-> "", apiKey |-> ""]
    /\ loaded = EmptyTable
    /\ credResult = Result("none", "none", NoValue)
    /\ credArg = Args(NoGUID, "", "")
    /\ capInput \in { InputOf(c) : c \in Choices(MaxChanges) }
    /\ capResult = Unchecked
    /\ requests = << >>
    /\ tree = ExtTree
    /\ ignores = {}
    /\ walkerKind = "walkFunc"
    /\ archive = FALSE
    /\ todo = << >>
    /\ manifest = {}
    /\ added = << >>
    /\ headers = << >>
    /\ bundleErr = "none"
    /\ bpc = "idle"
    /\ opc = "idle"
    /\ oTarget = NilTarget
    /\ tpc = [t \in Threads |-> "idle"]
    /\ tTable = [t \in Threads |-> EmptyTable]
    /\ tArg = [t \in Threads |-> Args(NoGUID, "", "")]
    /\ tResult = [t \in Threads |-> Result("none", "none", NoValue)]
    /\ exeInput = NoExeInput
    /\ exeResult = NotResolved
    /\ entrypointPaths = << >>
    /\ configs = NotInferred
    /\ loadedTarget = Target
    /\ state = "NEW"
    /\ lock = 0
    /\ call = [c \in Calls |-> NoCall]
    /\ assistant = "stopped"

(* the trees, ignore lists and destinations makeBundle is applied to *)
InitBundle ==
    /\ pc = "idle"
    /\ Target = NilTarget
    /\ prevType = "no configuration"
    /\ Validate = FALSE
    /\ knownID = ""
    /\ SaveName = ""
    /\ TargetName = ""
    /\ disk = [n \in SavedNames |-> NoRecord]
    /\ contentID = ""
    /\ bundleID = ""
    /\ gotBundle = ""
    /\ err = NoErr
    /\ events = << >>
    /\ calls = << >>
    /\ stages = << >>
    /\ returned = "none"
    /\ keyring = EmptyTable
    /\ env = [server |-> "", apiKey |-> ""]
    /\ loaded = EmptyTable
    /\ credResult = Result("none", "none", NoValue)
    /\ credArg = Args(NoGUID, "", "")
    /\ capInput = BaseInput
    /\ capResult = Unchecked
    /\ requests = << >>
    /\ tree \in Trees
    /\ ignores \in IgnoreLists
    /\ walkerKind \in {"walkFunc", "symlinkWalker"}
    /\ archive \in BOOLEAN
    /\ todo = << >>
    /\ manifest = {}
    /\ added = << >>
    /\ headers = << >>
    /\ bundleErr = "none"
    /\ bpc = "makeBundle"
    /\ opc = "idle"
    /\ oTarget = NilTarget
    /\ tpc = [t \in Threads |-> "idle"]
    /\ tTable = [t \in Threads |-> EmptyTable]
    /\ tArg = [t \in Threads |-> Args(NoGUID, "", "")]
    /\ tResult = [t \in Threads |-> Result("none", "none", NoValue)]
    /\ exeInput = NoExeInput
    /\ exeResult = NotResolved
    /\ entrypointPaths = << >>
    /\ configs = NotInferred
    /\ loadedTarget = Target
    /\ state = "NEW"
    /\ lock = 0
    /\ call = [c \in Calls |-> NoCall]
    /\ assistant = "stopped"

(* the state before two publishes of the same saved name *)
InitRace ==
    /\ pc = "publish"
    /\ Target \in {NilTarget, PreDeployment, OldDeployed(NoErr),
                   OldDeployed(AsAgentErrForOperation(PublishDeployBundleOp, "deployFailed"))}
    /\ prevType \in IF Target.present THEN {"same", "changed", "no configuration"}
                                      ELSE {"no configuration"}
    /\ Validate \in BOOLEAN
    /\ knownID = Target.ID
    /\ IF Target.present
         THEN SaveName = "" /\ TargetName = "dep"
         ELSE SaveName = "dep" /\ TargetName = ""
    /\ disk = [n \in SavedNames |-> IF Target.present THEN Target ELSE NoRecord]
    /\ contentID = ""
    /\ bundleID = ""
    /\ gotBundle = ""
    /\ err = NoErr
    /\ events = << >>
    /\ calls = << >>
    /\ stages = << >>
    /\ returned = "none"
    /\ keyring = EmptyTable
    /\ env = [server |-> "", apiKey |-> ""]
    /\ loaded = EmptyTable
    /\ credResult = Result("none", "none", NoValue)
    /\ credArg = Args(NoGUID, "", "")
    /\ capInput = BaseInput
    /\ capResult = Unchecked
    /\ requests = << >>
    /\ tree = ExtTree
    /\ ignores = {}
    /\ walkerKind = "walkFunc"
    /\ archive = FALSE
    /\ todo = << >>
    /\ manifest = {}
    /\ added = << >>
    /\ headers = << >>
    /\ bundleErr = "none"
    /\ bpc = "idle"
    /\ opc = "createDeployment"
    /\ oTarget = Target
    /\ tpc = [t \in Threads |-> "idle"]
    /\ tTable = [t \in Threads |-> EmptyTable]
    /\ tArg = [t \in Threads |-> Args(NoGUID, "", "")]
    /\ tResult = [t \in Threads |-> Result("none", "none", NoValue)]
    /\ exeInput = NoExeInput
    /\ exeResult = NotResolved
    /\ entrypointPaths = << >>
    /\ configs = NotInferred
    /\ loadedTarget = Target
    /\ state = "NEW"
    /\ lock = 0
    /\ call = [c \in Calls |-> NoCall]
    /\ assistant = "stopped"

(* the state before two threads call the store: the keyring empty or with *)
(* one credential, the environment credential set or not                *)
InitThread ==
    /\ pc = "idle"
    /\ Target = NilTarget
    /\ prevType = "no configuration"
    /\ Validate = FALSE
    /\ knownID = ""
    /\ SaveName = ""
    /\ TargetName = ""
    /\ disk = [n \in SavedNames |-> NoRecord]
    /\ contentID = ""
    /\ bundleID = ""
    /\ gotBundle = ""
    /\ err = NoErr
    /\ events = << >>
    /\ calls = << >>
    /\ stages = << >>
    /\ returned = "none"
    /\ keyring \in {EmptyTable,
                    [g \in {1} |-> CredentialRecord(1,
                        Credential(1, "n1", "https://a", "k"))]}
    /\ env \in {[server |-> "", apiKey |-> ""],
                [server |-> "https://b", apiKey |-> "k"]}
    /\ loaded = EmptyTable
    /\ credResult = Result("none", "none", NoValue)
    /\ credArg = Args(NoGUID, "", "")
    /\ capInput = BaseInput
    /\ capResult = Unchecked
    /\ requests = << >>
    /\ tree = ExtTree
    /\ ignores = {}
    /\ walkerKind = "walkFunc"
    /\ archive = FALSE
    /\ todo = << >>
    /\ manifest = {}
    /\ added = << >>
    /\ headers = << >>
    /\ bundleErr = "none"
    /\ bpc = "idle"
    /\ opc = "idle"
    /\ oTarget = NilTarget
    /\ tpc = [t \in Threads |-> "idle"]
    /\ tTable = [t \in Threads |-> EmptyTable]
    /\ tArg = [t \in Threads |-> Args(NoGUID, "", "")]
    /\ tResult = [t \in Threads |-> Result("none", "none", NoValue)]
    /\ exeInput = NoExeInput
    /\ exeResult = NotResolved
    /\ entrypointPaths = << >>
    /\ configs = NotInferred
    /\ loadedTarget = Target
    /\ state = "NEW"
    /\ lock = 0
    /\ call = [c \in Calls |-> NoCall]
    /\ assistant = "stopped"

(* the state before an inspector looks for its executable *)
InitExe ==
    /\ pc = "idle"
    /\ Target = NilTarget
    /\ prevType = "no configuration"
    /\ Validate = FALSE
    /\ knownID = ""
    /\ SaveName = ""
    /\ TargetName = ""
    /\ disk = [n \in SavedNames |-> NoRecord]
    /\ contentID = ""
    /\ bundleID = ""
    /\ gotBundle = ""
    /\ err = NoErr
    /\ events = << >>
    /\ calls = << >>
    /\ stages = << >>
    /\ returned = "none"
    /\ keyring = EmptyTable
    /\ env = [server |-> "", apiKey |-> ""]
    /\ loaded = EmptyTable
    /\ credResult = Result("none", "none", NoValue)
    /\ credArg = Args(NoGUID, "", "")
    /\ capInput = BaseInput
    /\ capResult = Unchecked
    /\ requests = << >>
    /\ tree = ExtTree
    /\ ignores = {}
    /\ walkerKind = "walkFunc"
    /\ archive = FALSE
    /\ todo = << >>
    /\ manifest = {}
    /\ added = << >>
    /\ headers = << >>
    /\ bundleErr = "none"
    /\ bpc = "idle"
    /\ opc = "idle"
    /\ oTarget = NilTarget
    /\ tpc = [t \in Threads |-> "idle"]
    /\ tTable = [t \in Threads |-> EmptyTable]
    /\ tArg = [t \in Threads |-> Args(NoGUID, "", "")]
    /\ tResult = [t \in Threads |-> Result("none", "none", NoValue)]
    /\ exeInput \in ExeInputs
    /\ (exeInput.executable = "") => (exeInput.exists = "no")
    /\ exeResult = NotResolved
    /\ entrypointPaths = << >>
    /\ configs = NotInferred
    /\ loadedTarget = Target
    /\ state = "NEW"
    /\ lock = 0
    /\ call = [c \in Calls |-> NoCall]
    /\ assistant = "stopped"

(* the state before the detector looks at a directory *)
InitDet ==
    /\ pc = "idle"
    /\ Target = NilTarget
    /\ prevType = "no configuration"
    /\ Validate = FALSE
    /\ knownID = ""
    /\ SaveName = ""
    /\ TargetName = ""
    /\ disk = [n \in SavedNames |-> NoRecord]
    /\ contentID = ""
    /\ bundleID = ""
    /\ gotBundle = ""
    /\ err = NoErr
    /\ events = << >>
    /\ calls = << >>
    /\ stages = << >>
    /\ returned = "none"
    /\ keyring = EmptyTable
    /\ env = [server |-> "", apiKey |-> ""]
    /\ loaded = EmptyTable
    /\ credResult = Result("none", "none", NoValue)
    /\ credArg = Args(NoGUID, "", "")
    /\ capInput = BaseInput
    /\ capResult = Unchecked
    /\ requests = << >>
    /\ tree = ExtTree
    /\ ignores = {}
    /\ walkerKind = "walkFunc"
    /\ archive = FALSE
    /\ todo = << >>
    /\ manifest = {}
    /\ added = << >>
    /\ headers = << >>
    /\ bundleErr = "none"
    /\ bpc = "idle"
    /\ opc = "idle"
    /\ oTarget = NilTarget
    /\ tpc = [t \in Threads |-> "idle"]
    /\ tTable = [t \in Threads |-> EmptyTable]
    /\ tArg = [t \in Threads |-> Args(NoGUID, "", "")]
    /\ tResult = [t \in Threads |-> Result("none", "none", NoValue)]
    /\ exeInput = NoExeInput
    /\ exeResult = NotResolved
    /\ entrypointPaths \in Globs
    /\ configs = NotInferred
    /\ loadedTarget = Target
    /\ state = "NEW"
    /\ lock = 0
    /\ call = [c \in Calls |-> NoCall]
    /\ assistant = "stopped"

(* the service as Service.get makes it: NEW, nothing called yet *)
InitService ==
    /\ pc = "idle"
    /\ Target = NilTarget
    /\ prevType = "no configuration"
    /\ Validate = FALSE
    /\ knownID = ""
    /\ SaveName = ""
    /\ TargetName = ""
    /\ disk = [n \in SavedNames |-> NoRecord]
    /\ contentID = ""
    /\ bundleID = ""
    /\ gotBundle = ""
    /\ err = NoErr
    /\ events = << >>
    /\ calls = << >>
    /\ stages = << >>
    /\ returned = "none"
    /\ keyring = EmptyTable
    /\ env = [server |-> "", apiKey |-> ""]
    /\ loaded = EmptyTable
    /\ credResult = Result("none", "none", NoValue)
    /\ credArg = Args(NoGUID, "", "")
    /\ capInput = BaseInput
    /\ capResult = Unchecked
    /\ requests = << >>
    /\ tree = ExtTree
    /\ ignores = {}
    /\ walkerKind = "walkFunc"
    /\ archive = FALSE
    /\ todo = << >>
    /\ manifest = {}
    /\ added = << >>
    /\ headers = << >>
    /\ bundleErr = "none"
    /\ bpc = "idle"
    /\ opc = "idle"
    /\ oTarget = NilTarget
    /\ tpc = [t \in Threads |-> "idle"]
    /\ tTable = [t \in Threads |-> EmptyTable]
    /\ tArg = [t \in Threads |-> Args(NoGUID, "", "")]
    /\ tResult = [t \in Threads |-> Result("none", "none", NoValue)]
    /\ exeInput = NoExeInput
    /\ exeResult = NotResolved
    /\ entrypointPaths = << >>
    /\ configs = NotInferred
    /\ loadedTarget = Target
    /\ state = "NEW"
    /\ lock = 0
    /\ call = [c \in Calls |-> NoCall]
    /\ assistant = "stopped"

(* one publish, from the call of publish() to its return *)
Spec == InitPublish /\ [][NextPublish]_vars

(* the credential store under any sequence of calls *)
CredSpec == InitCred /\ [][NextCred]_vars

(* the capability validator applied to a configuration and server settings *)
CapSpec == InitCap /\ [][NextCap]_vars

(* two publishes of the same saved name, interleaved in any way *)
RaceSpec == InitRace /\ [][NextRace]_vars

(* two threads, each calling Set or Delete once, interleaved in any way *)
ThreadSpec == InitThread /\ [][NextThread]_vars

(* an inspector resolving its executable *)
ExeSpec == InitExe /\ [][NextExe]_vars

(* the PyShiny detector applied to a directory *)
DetSpec == InitDet /\ [][NextDet]_vars

(* calls of start() and stop() on the service, interleaved in any way *)
ServiceSpec == InitService /\ [][NextService]_vars

(* the archive builder applied to a directory tree *)
BundleSpec == InitBundle /\ [][NextBundle]_vars

----------------------------------------------------------------------------
(* Properties of the publish orchestrator *)

Range(seq) == { seq[i] : i \in 1..Len(seq) }

IsPrefix(a, b) == Len(a) <= Len(b) /\ a = SubSeq(b, 1, Len(a))

Count(seq, x) == Cardinality({ i \in 1..Len(seq) : seq[i] = x })

(* the stages of one publish, in their order *)
StageOrder ==
    <<"PreflightCheck", "CreateOrUpdateDeployment", "CreateBundle",
      "UploadBundle", "UpdateContentSettings", "SetEnvironmentVariables",
      "DeployBundle", "WaitForTask">>
    \o (IF Validate THEN <<"ValidateDeployment">> ELSE << >>)
    \o <<"Success">>

(* the calls that change something on the server *)
RemoteMutations ==
    {"CreateDeployment", "UpdateDeployment", "UploadBundle", "SetEnvVars",
     "DeployBundle"}

(* C1: the stages begun are always an initial part of the fixed order       *)
(* PreflightCheck, CreateOrUpdateDeployment, CreateBundle, UploadBundle,    *)
(* UpdateContentSettings, SetEnvironmentVariables, DeployBundle,            *)
(* WaitForTask, ValidateDeployment only when configured, Success; and a     *)
(* stage begins only while no earlier stage has failed.                     *)
C1_StagesInOrder ==
    /\ [](IsPrefix(stages, StageOrder))
    /\ [][stages' # stages => err = NoErr /\ Len(stages') = Len(stages) + 1]_vars

C1_Witness ==
    /\ pc = "done"
    /\ returned = "nil"
    /\ Validate
    /\ stages = StageOrder

(* C2: once a stage has failed no later stage is started, no further server *)
(* call is issued and no start event is emitted, and the publish ends as    *)
(* failed: it returns the error and emits no overall success event.         *)
C2_StopsAtFirstFailure ==
    /\ [][err # NoErr =>
            /\ stages' = stages
            /\ calls' = calls
            /\ \A i \in 1..Len(events') :
                 i > Len(events) => events'[i].phase # StartPhase]_vars
    /\ [](pc = "done" /\ err # NoErr =>
            /\ returned = "err"
            /\ Event(PublishOp, SuccessPhase) \notin Range(events))

C2_Witness ==
    /\ pc = "done"
    /\ err # NoErr
    /\ stages # << >>
    /\ stages[Len(stages)] = "UploadBundle"
    /\ returned = "err"

(* C3: when PreflightCheck fails, no create-deployment, update-deployment, *)
(* bundle-upload, set-environment-variables or deploy call is ever issued  *)
(* by this publish.                                                        *)
C3_PreflightFailureMutatesNothing ==
    err.op = PublishCheckCapabilitiesOp => Range(calls) \cap RemoteMutations = {}

C3_Witness ==
    /\ pc = "done"
    /\ err.op = PublishCheckCapabilitiesOp
    /\ "CheckCapabilities" \in Range(calls)

(* the server calls of the stages after CreateOrUpdateDeployment *)
IsLaterCall(c) == c \notin {"TestAuthentication", "CheckCapabilities", "CreateDeployment"}

LaterCalls ==
    <<"UploadBundle", "UpdateDeployment", "SetEnvVars", "DeployBundle",
      "WaitForTask">> \o (IF Validate THEN <<"ValidateDeployment">> ELSE << >>)

C8_EveryStartedStageIsClosed ==
    pc = "done" =>
      \A op \in StageOps :
        Event(op, StartPhase) \in Range(events) =>
          Count(events, Event(op, SuccessPhase))
            + Count(events, Event(op, FailurePhase)) = 1

(* C9: when the publish has returned it has emitted exactly one overall    *)
(* start event and exactly one overall outcome event, success or failure.  *)
C9_OneOverallOutcome ==
    pc = "done" =>
      /\ Count(events, Event(PublishOp, StartPhase)) = 1
      /\ Count(events, Event(PublishOp, SuccessPhase))
           + Count(events, Event(PublishOp, FailurePhase)) = 1

(* the record file of this publish *)
recordOnDisk == disk[recordName]

C26_SuccessRecordIsComplete ==
    (pc = "done" /\ returned = "nil") =>
      /\ recordOnDisk.present
      /\ contentID # ""
      /\ recordOnDisk.ID = contentID
      /\ bundleID # ""
      /\ recordOnDisk.BundleID = bundleID
      /\ recordOnDisk.Files = ManifestFiles
      /\ recordOnDisk.Error = NoErr
      /\ recordOnDisk = Target

(* a publish that started with the record of a failed deployment and *)
(* returned nil                                                      *)
C26_Witness ==
    /\ pc = "done"
    /\ returned = "nil"
    /\ loadedTarget.present
    /\ loadedTarget.Error # NoErr
    /\ recordOnDisk.Error = NoErr
    /\ recordOnDisk.BundleID = NewBundleID

----------------------------------------------------------------------------
(* Properties of the credential store *)

(* no two credentials of a table share a guid, a normalized URL or a name *)
UniqueCredentials(creds) ==
    \A g1 \in DOMAIN creds, g2 \in DOMAIN creds :
      g1 # g2 =>
        /\ creds[g1].GUID # creds[g2].GUID
        /\ creds[g1].URL # creds[g2].URL
        /\ creds[g1].Name # creds[g2].Name

(* C5: in every table load() returns, and in every list List() returns,   *)
(* the environment credential included, no two credentials share a guid,  *)
(* a normalized URL or a name.                                            *)
C5_CredentialsAreUnique ==
    /\ UniqueCredentials([g \in DOMAIN loaded |-> loaded[g].Data])
    /\ (credResult.op = "List" /\ credResult.err = "none") =>
         UniqueCredentials(credResult.value)

(* C6: the table in the keyring never holds a record under the reserved  *)
(* environment guid, nor a record or credential that carries that guid.  *)
C6_EnvCredentialNeverPersisted ==
    /\ EnvVarGUID \notin DOMAIN keyring
    /\ \A g \in DOMAIN keyring :
         keyring[g].GUID # EnvVarGUID /\ keyring[g].Data.GUID # EnvVarGUID

C6_Witness ==
    /\ credResult.op = "Set"
    /\ credResult.err = "none"
    /\ EnvVarGUID \in DOMAIN loaded
    /\ DOMAIN keyring # {}

----------------------------------------------------------------------------
(* Properties of the capability validator *)

(* the check an error comes from, by its code and key *)
CheckOf(e) ==
    CASE e.code = "requirementFileMissing" -> "package file"
      [] e.code = "apisNotLicensed" -> "API license"
      [] e.code = "descriptionTooLong" -> "description"
      [] e.code \in {"pythonNotAvailable", "panic"} -> "Python version"
      [] e.code \in {"currentUserExecutionNotLicensed",
                     "currentUserExecutionNotConfigured", "onlyAppsCanRACU"}
           -> "access"
      [] e.code = "adminPrivilegesRequired" ->
           IF e.key = "service-account-name" THEN "Kubernetes enablement"
                                             ELSE "access"
      [] e.code \in {"valueOutOfRange", "minGreaterThanMax"} ->
           IF e.key \in {"max-processes", "min-processes"} THEN "runtime limits"
                                                           ELSE "Kubernetes limits"
      [] e.code = "runtimeSettingsForStaticContent" -> "static content"
      [] e.code \in {"kubernetesNotLicensed", "kubernetesNotConfigured",
                     "imageSelectionNotEnabled"} -> "Kubernetes enablement"
      [] OTHER -> "none"

(* whether a check, taken by itself, rejects the input *)
Rejects(chk, in) ==
    CASE chk = "package file" -> in.Python /\ ~in.PackageFileExists
      [] chk = "API license" -> IsAPIContent(in.Type) /\ ~in.AllowAPIs
      [] chk = "description" -> in.DescriptionLen > 4096
      [] chk = "Python version" ->
           in.Python /\ checkMatchingPython(in, in.PythonVersion) # NoError
      [] chk = "access" -> in.Connect /\ checkAccess(in) # NoError
      [] chk = "static content" ->
           in.Connect /\ in.Runtime /\ IsStaticContent(in.Type)
      [] chk = "runtime limits" ->
           in.Connect /\ in.Runtime /\ checkRuntimeLimits(in) # NoError
      [] chk = "Kubernetes enablement" ->
           in.Connect /\ in.Kubernetes /\ checkKubernetesEnabled(in) # NoError
      [] chk = "Kubernetes limits" ->
           in.Connect /\ in.Kubernetes /\ checkKubernetesLimits(in) # NoError
      [] chk = "resource limits" ->
           in.Connect /\ \/ in.Runtime /\ checkRuntimeLimits(in) # NoError
                         \/ in.Kubernetes /\ checkKubernetesLimits(in) # NoError

(* the order of the checks as the specification lists it, the numeric  *)
(* limits of the runtime and Kubernetes sections being one check       *)
ListedOrder ==
    <<"package file", "API license", "description", "Python version", "access",
      "resource limits", "static content", "Kubernetes enablement">>

(* the order in which the code runs the checks *)
CodeOrder ==
    <<"package file", "API license", "description", "Python version", "access",
      "static content", "runtime limits", "Kubernetes enablement",
      "Kubernetes limits">>

Listed(chk) ==
    IF chk \in {"runtime limits", "Kubernetes limits"} THEN "resource limits"
                                                          ELSE chk

(* the result is the error of the first check of the order that rejects *)
(* the input, and no error when none does                               *)
FirstRejecting(order, in, found) ==
    IF \A i \in 1..Len(order) : ~Rejects(order[i], in)
      THEN found = "none"
      ELSE \E i \in 1..Len(order) :
             /\ Rejects(order[i], in)
             /\ \A j \in 1..(i - 1) : ~Rejects(order[j], in)
             /\ found = order[i]

Checked == capResult # Unchecked /\ capInput.fetchOk

(* C7 as stated: CheckCapabilities returns the error of the first failing  *)
(* check in the order package file, API license, description, Python       *)
(* version, access control, numeric resource limits, static content,       *)
(* Kubernetes licensing and enablement.                                    *)
C7_ListedOrder ==
    Checked => FirstRejecting(ListedOrder, capInput, Listed(CheckOf(capResult)))

(* C7 amended: CheckCapabilities returns the error of the first failing    *)
(* check in the order package file, API license, description, Python       *)
(* version, access control, runtime fields for static content, process     *)
(* count limits, Kubernetes licensing and enablement, Kubernetes resource  *)
(* limits.                                                                 *)
C7_CodeOrder ==
    Checked => FirstRejecting(CodeOrder, capInput, CheckOf(capResult))

C7_Witness ==
    /\ Checked
    /\ Rejects("Kubernetes enablement", capInput)
    /\ Rejects("Kubernetes limits", capInput)
    /\ CheckOf(capResult) = "Kubernetes enablement"

(* C11: when a publish has failed while it held a deployment record, the   *)
(* record's error field is that failure and the record file on disk        *)
(* carries it.                                                             *)
C11_RecordCarriesError ==
    (pc = "done" /\ returned = "err" /\ Target.present) =>
        /\ Target.Error = AsAgentError(err)
        /\ disk[recordName].Error = AsAgentError(err)

(* The configured request/min and limit/max pairs of an input: whether the *)
(* section holding the pair is present, the two values, the name of the    *)
(* request/min field and the maxima the code checks before comparing them  *)
MinMaxPairs(in) ==
    { [present |-> in.Connect /\ in.Runtime,
       min |-> in.MinProcesses, max |-> in.MaxProcesses, key |-> "min-processes",
       earlier |-> <<"package file", "API license", "description",
                     "Python version", "access", "static content">>,
       maxima |-> FirstError(<<
           checkMaxInt("max-processes", in.MaxProcesses, in.sMaxProcessesLimit),
           checkMaxInt("min-processes", in.MinProcesses, in.sMinProcessesLimit) >>)],
      [present |-> in.Connect /\ in.Kubernetes,
       min |-> in.CPURequest, max |-> in.CPULimit, key |-> "cpu-request",
       earlier |-> <<"package file", "API license", "description",
                     "Python version", "access", "static content",
                     "runtime limits", "Kubernetes enablement">>,
       maxima |-> FirstError(<<
           checkMaxFloat("cpu-request", in.CPURequest, in.sMaxCPURequest),
           checkMaxFloat("cpu-limit", in.CPULimit, in.sMaxCPULimit),
           checkMaxInt("memory-request", in.MemoryRequest, in.sMaxMemoryRequest),
           checkMaxInt("memory-limit", in.MemoryLimit, in.sMaxMemoryLimit),
           checkMaxInt("amd-gpu-limit", in.AMDGPULimit, in.sMaxAMDGPULimit),
           checkMaxInt("nvidia-gpu-limit", in.NvidiaGPULimit, in.sMaxNvidiaGPULimit) >>)] }

(* both values of the pair are configured and the request/min is greater *)
MinAboveMax(p) ==
    /\ p.present
    /\ p.min # Nil
    /\ p.max # Nil
    /\ p.min[1] > p.max[1]

C13_DeleteOfEnvGuidFails ==
    [][(credResult'.op = "Delete" /\ credArg'.guid = EnvVarGUID /\ Delete) =>
         /\ credResult'.err # "none"
         /\ keyring' = keyring
         /\ env' = env]_vars

C13_Witness ==
    /\ credResult.op = "Delete"
    /\ credArg.guid = EnvVarGUID
    /\ credResult.err = "EnvURLDeleteError"
    /\ keyring # EmptyTable

(* the credentials of a table that the new name or the new normalized URL *)
(* collides with                                                          *)
CollidingWith(table, name, normalizedUrl) ==
    { g \in DOMAIN table : \/ table[g].Data.URL = normalizedUrl
                           \/ table[g].Data.Name = name }

EnvCollisionErrors == {"EnvURLCollisionError", "EnvNameCollisionError"}
StoredCollisionErrors == {"URLCollisionError", "NameCollisionError"}

UnknownVersion(table) == { g \in DOMAIN table : table[g].Version # 0 }

(* C15: a Get of a record whose version is not 0 fails and returns no       *)
(* credential; a List or a Set over a table holding such a record fails,    *)
(* returns no credential and stores nothing.                                *)
C15_UnknownVersionFails ==
    [][/\ (credResult'.op = "Get" /\ credArg'.guid \in UnknownVersion(load) /\ Get) =>
            credResult'.err # "none" /\ credResult'.value = NoValue
       /\ (credResult'.op = "List" /\ UnknownVersion(load) # {} /\ List) =>
            credResult'.err # "none" /\ credResult'.value = NoValue
       /\ (credResult'.op = "Set" /\ UnknownVersion(load) # {} /\ Set) =>
            /\ credResult'.err # "none"
            /\ credResult'.value = NoValue
            /\ keyring' = keyring]_vars

C15_Witness ==
    /\ credResult.op = "Get"
    /\ credResult.err = "VersionError"
    /\ credArg.guid \in UnknownVersion(keyring)

(* the numeric resource fields: the key of each, its configured value and *)
(* the server maximum it is checked against                               *)
MaxFields(in) ==
    { [key |-> "max-processes", value |-> in.MaxProcesses, limit |-> in.sMaxProcessesLimit],
      [key |-> "min-processes", value |-> in.MinProcesses, limit |-> in.sMinProcessesLimit],
      [key |-> "cpu-request", value |-> in.CPURequest, limit |-> in.sMaxCPURequest],
      [key |-> "cpu-limit", value |-> in.CPULimit, limit |-> in.sMaxCPULimit],
      [key |-> "memory-request", value |-> in.MemoryRequest, limit |-> in.sMaxMemoryRequest],
      [key |-> "memory-limit", value |-> in.MemoryLimit, limit |-> in.sMaxMemoryLimit],
      [key |-> "amd-gpu-limit", value |-> in.AMDGPULimit, limit |-> in.sMaxAMDGPULimit],
      [key |-> "nvidia-gpu-limit", value |-> in.NvidiaGPULimit,
       limit |-> in.sMaxNvidiaGPULimit] }

(* C20: a field whose server maximum is zero is never rejected as out of *)
(* range, whatever value is configured for it.                           *)
C20_ZeroMaximumIsNoLimit ==
    Checked =>
      \A f \in MaxFields(capInput) :
        f.limit = 0 => capResult # AgentError("valueOutOfRange", f.key)

C20_Witness ==
    /\ Checked
    /\ capInput.sMaxNvidiaGPULimit = 0
    /\ capInput.NvidiaGPULimit = Ptr(5)
    /\ capResult = NoError

(* C18: the two publishes write the record file without regard to each     *)
(* other. A write of either replaces the whole file with the writer's own   *)
(* record, whatever the other publish has written there: when the first     *)
(* publish passes its create or upload stage the file holds its record, and *)
(* whenever the second writes the file holds the second's record.           *)
C18_WritesAreNotCoordinated ==
    [][/\ (pc = "createDeployment" /\ pc' = "createBundle") => disk'[recordName'] = Target'
       /\ (pc = "uploadBundle" /\ pc' = "updateContent") => disk'[recordName'] = Target'
       /\ (opc' # opc /\ oTarget' # oTarget) => disk'[recordName'] = oTarget']_vars

(* both publishes have ended, the first with success, and the record file *)
(* holds the record of the second: the record the first wrote, with its   *)
(* bundle, was overwritten                                                *)
C18_Witness ==
    /\ pc = "done"
    /\ returned = "nil"
    /\ opc = "done"
    /\ Target.BundleID = NewBundleID
    /\ disk[recordName] = oTarget
    /\ disk[recordName].BundleID = ""
    /\ disk[recordName] # Target

(* C19: the store is not thread safe. The save of a thread writes the      *)
(* table that thread loaded, with its own change: a record the other       *)
(* thread saved after that load is not in the keyring afterwards, and the  *)
(* records the thread loaded are there as it loaded them, all but the one  *)
(* it deleted.                                                             *)
SavesBy(t) == tpc[t] \in {"Set", "Delete"} /\ tpc'[t] = "done"

C19_SaveWritesLoadedTable ==
    [][\A t \in Threads :
         SavesBy(t) =>
           /\ \A g \in DOMAIN keyring :
                (g \notin DOMAIN tTable[t]) => (g \notin DOMAIN keyring')
           /\ \A g \in DOMAIN tTable[t] \ {EnvVarGUID} :
                \/ tpc[t] = "Delete" /\ g = tArg[t].guid
                \/ g \in DOMAIN keyring' /\ keyring'[g] = tTable[t][g]]_vars

(* both threads called Set with different names and URLs, both calls   *)
(* returned the credential without an error, and the credential of one *)
(* of them is not in the keyring                                       *)
C19_Witness ==
    /\ \A t \in Threads :
         /\ tpc[t] = "done"
         /\ tResult[t].op = "Set"
         /\ tResult[t].err = "none"
    /\ tArg[1].name # tArg[2].name
    /\ NormalizeServerURL(tArg[1].url) # NormalizeServerURL(tArg[2].url)
    /\ \E t \in Threads : tArg[t].guid \notin DOMAIN keyring

(* the Python version check was reached: the configuration has a Python *)
(* section and no earlier check failed                                  *)
PythonChecked ==
    /\ Checked
    /\ capInput.Python
    /\ \A chk \in {"package file", "API license", "description"} :
         ~Rejects(chk, capInput)

SameMajorMinor(a, b) ==
    /\ Len(a) >= 2
    /\ Len(b) >= 2
    /\ a[1] = b[1]
    /\ a[2] = b[2]

(* C21: the Python version check passes exactly when some installation the *)
(* server reports has the major.minor of the requested version; otherwise  *)
(* it fails with code pythonNotAvailable and the versions of all the       *)
(* installations, in the server's order.                                   *)
C21_PythonVersionValidation ==
    PythonChecked =>
      IF \E i \in 1..Len(capInput.Installations) :
            SameMajorMinor(capInput.Installations[i], capInput.PythonVersion)
        THEN CheckOf(capResult) # "Python version"
        ELSE /\ capResult.code = "pythonNotAvailable"
             /\ capResult.data.available = capInput.Installations

(* the requests for the scheduler limits among those sent *)
SchedulerQueries ==
    { i \in 1..Len(requests) : requests[i][1] = "/__api__/server_settings/scheduler" }

Fetched == capResult # Unchecked /\ Len(requests) = 7

NumericFields ==
    { [field |-> "MaxProcesses", key |-> "max-processes", kubernetes |-> FALSE],
      [field |-> "MinProcesses", key |-> "min-processes", kubernetes |-> FALSE],
      [field |-> "CPURequest", key |-> "cpu-request", kubernetes |-> TRUE],
      [field |-> "CPULimit", key |-> "cpu-limit", kubernetes |-> TRUE],
      [field |-> "MemoryRequest", key |-> "memory-request", kubernetes |-> TRUE],
      [field |-> "MemoryLimit", key |-> "memory-limit", kubernetes |-> TRUE],
      [field |-> "AMDGPULimit", key |-> "amd-gpu-limit", kubernetes |-> TRUE],
      [field |-> "NvidiaGPULimit", key |-> "nvidia-gpu-limit", kubernetes |-> TRUE] }

(* the fields configured with a negative value *)
NegativeFields ==
    { nf \in NumericFields :
        /\ capInput.Connect
        /\ IF nf.kubernetes THEN capInput.Kubernetes ELSE capInput.Runtime
        /\ capInput[nf.field] # Nil
        /\ capInput[nf.field][1] < 0 }

(* C27: a negative value of a numeric resource field is rejected whatever  *)
(* the server's maximum for the field is: validation does not pass, and    *)
(* when the configuration passes without the field the error has the code  *)
(* valueOutOfRange and names the field.                                    *)
C27_NegativeAlwaysRejected ==
    Checked =>
      \A nf \in NegativeFields :
        /\ capResult # NoError
        /\ CheckCapabilitiesResult([capInput EXCEPT ![nf.field] = Nil]) = NoError
             => capResult = AgentError("valueOutOfRange", nf.key)

----------------------------------------------------------------------------
(* Properties of the archive builder *)

(* how deep the paths of the source tree go *)
MaxDepth == 3

(* the relative paths a file of the source tree can have *)
RelPaths == UNION { [1..n -> EntryNames] : n \in 1..MaxDepth }

(* a regular file is at this path of the source tree, links followed *)
IsSourceFile(r) == Stat(BaseDir \o r).kind = "file"

(* an ignore rule matches the file or a directory above it *)
Matched(r) == \E i \in 1..Len(r) : r[i] \in ignores

BundleDone == bpc = "done" /\ bundleErr = "none"

(* C16: when makeBundle has returned a manifest, every regular file of the  *)
(* source tree that no ignore rule matches is in the manifest under its     *)
(* path relative to the base directory and was added exactly once, and the  *)
(* manifest lists nothing else.                                             *)
C16_EachFileOnce ==
    BundleDone =>
      /\ \A r \in RelPaths :
           (IsSourceFile(r) /\ ~Matched(r)) => (r \in manifest /\ Count(added, r) = 1)
      /\ \A a \in manifest : a \in RelPaths /\ IsSourceFile(a) /\ ~Matched(a)

C16_Witness ==
    /\ BundleDone
    /\ ignores = {"h"}
    /\ manifest = {<<"f">>, <<"d", "g">>, <<"l", "s", "g">>}

(* the links of the source tree that point to a directory *)
LinkDirs ==
    { r \in RelPaths : /\ Lstat(BaseDir \o r).kind = "link"
                       /\ Stat(BaseDir \o r).kind = "dir" }

(* what a real directory at r with the contents of the link's target would *)
(* contribute: its regular files that no rule matches, under r             *)
AsRealDirectory(r) ==
    { a \in RelPaths :
        /\ Len(a) > Len(r)
        /\ IsPrefix(r, a)
        /\ ~Matched(a)
        /\ LET inTarget == EvalSymlinks(EvalSymlinks(BaseDir \o r)
                                        \o SubSeq(a, Len(r) + 1, Len(a)))
           IN  inTarget # Missing /\ tree[inTarget].kind = "file" }

FileHeaders ==
    { headers[i].name : i \in { j \in 1..Len(headers) : ~headers[j].dir } }
      \ {ManifestFilename}

(* C17: a link to a directory that no rule matches contributes to the      *)
(* manifest, and to the archive when there is one, exactly the files a     *)
(* real directory with the contents of its target would contribute at the  *)
(* link's path; nothing is reported under a path outside the base          *)
(* directory, where the resolved target may lie.                           *)
C17_LinkAsSubtree ==
    BundleDone =>
      /\ \A r \in LinkDirs :
           ~Matched(r) =>
             /\ { a \in manifest : IsPrefix(r, a) } = AsRealDirectory(r)
             /\ archive => { a \in FileHeaders : IsPrefix(r, a) } = AsRealDirectory(r)
      /\ \A a \in manifest \cup FileHeaders : a # << >> /\ a[1] # ".."

C17_Witness ==
    /\ BundleDone
    /\ archive
    /\ <<"l">> \in LinkDirs
    /\ EvalSymlinks(BaseDir \o <<"l">>) = ExtDir
    /\ { a \in manifest : IsPrefix(<<"l">>, a) } = {<<"l", "h">>, <<"l", "s", "g">>}

(* C23: CreateBundle appends the manifest entry when the walk has ended,  *)
(* after every file entry, so that it is the last entry of the archive and *)
(* nothing is written after it; CreateManifest, which has no archive,      *)
(* writes no entry at all, the manifest entry included.                    *)
C23_ManifestEntryLast ==
    /\ [](~archive => headers = << >>)
    /\ []((BundleDone /\ archive /\ bundleErr = "none") =>
            /\ headers # << >>
            /\ headers[Len(headers)] = Header(ManifestFilename, FALSE)
            /\ \A f \in manifest : \E i \in 1..(Len(headers) - 1) :
                  headers[i] = Header(f, FALSE))
    /\ [][/\ (bpc # "done" /\ bpc' = "done") => todo = << >>
          /\ bpc = "done" => headers' = headers
          /\ bpc' # "done" =>
               \/ headers' = headers
               \/ /\ Len(headers') = Len(headers) + 1
                  /\ headers'[Len(headers')].name = Rel(BaseDir, Head(todo))]_vars

C23_Witness ==
    /\ BundleDone
    /\ archive
    /\ bundleErr = "none"
    /\ Len(added) >= 2
    /\ Len(headers) = Len(added) + 2
    /\ headers[Len(headers)] = Header(ManifestFilename, FALSE)

----------------------------------------------------------------------------
(* Properties of the inspectors *)

(* the places in the order of names of those that are found and run *)
Runnable ==
    LET names == ExecutableNames(exeInput.inspector)
    IN  { i \in 1..Len(names) : names[i] \in exeInput.onPath \cap exeInput.runs }

(* C24: an executable the user gave is the result when it exists, and an   *)
(* error when it does not, whatever is on the search path; with none given *)
(* the result is the first of the conventional names, in their fixed       *)
(* order, that is found on the search path and runs, and an error when no  *)
(* name is found and runs.                                                 *)
C24_ExecutableResolution ==
    exeResult # NotResolved =>
      IF exeInput.executable # ""
        THEN IF exeInput.exists = "yes"
               THEN exeResult = Executable(exeInput.executable, "none")
               ELSE exeResult.path = "" /\ exeResult.err # "none"
        ELSE IF Runnable = {}
               THEN exeResult.path = "" /\ exeResult.err # "none"
               ELSE \E i \in Runnable :
                      /\ \A j \in Runnable : i <= j
                      /\ exeResult = Executable(
                           LookPath(ExecutableNames(exeInput.inspector)[i]), "none")

(* python3 is found and does not run, python is found and runs, and python *)
(* is the result                                                           *)
C24_Witness ==
    /\ exeInput.inspector = "python"
    /\ exeInput.executable = ""
    /\ "python3" \in exeInput.onPath \ exeInput.runs
    /\ exeResult = Executable(LookPath("python"), "none")

----------------------------------------------------------------------------
(* Properties of the PyShiny detector *)

(* the files of the directory found to import Shiny Express, with the *)
(* configuration made for each                                        *)
ExpressConfigs ==
    { i \in 1..Len(configs.configs) :
        entrypointPaths[i].content = "import shiny.express" }

(* the result for place i of a path: the character kept or its encoding *)
Kept(k, i) == configs.configs[k].Entrypoint[i + 1] = entrypointPaths[k].name[i]
Encoded(k, i) ==
    configs.configs[k].Entrypoint[i + 1] = "_" \o Hex(entrypointPaths[k].name[i]) \o "_"

(* the tokens a Python identifier is made of, and those it can start with *)
IdentifierTokens == {"a", "p", "y", "1", "_", "_5f_", "_2e_", "_31_"}

(* C25 as stated: the entrypoint of a Shiny Express file is the prefix and *)
(* the path with every character outside [A-Za-z0-9_] encoded and every    *)
(* character inside it unchanged.                                          *)
C25_EncodesOutsideIdentifierChars ==
    \A k \in ExpressConfigs :
      /\ Len(configs.configs[k].Entrypoint) = Len(entrypointPaths[k].name) + 1
      /\ configs.configs[k].Entrypoint[1] = "shiny.express.app:"
      /\ \A i \in 1..Len(entrypointPaths[k].name) :
           IF entrypointPaths[k].name[i] \in {"a", "p", "y", "1", "_"}
             THEN Kept(k, i)
             ELSE Encoded(k, i)

(* C25 amended: the entrypoint of a Shiny Express file is the prefix and   *)
(* the path with every character outside [A-Za-z0-9], the underscore       *)
(* included, and a digit in the first place encoded as "_", the byte in    *)
(* hexadecimal, "_", and every other character unchanged; the part after   *)
(* the prefix is a valid identifier.                                       *)
C25_EncodesOutsideAlphanumerics ==
    \A k \in ExpressConfigs :
      /\ Len(configs.configs[k].Entrypoint) = Len(entrypointPaths[k].name) + 1
      /\ configs.configs[k].Entrypoint[1] = "shiny.express.app:"
      /\ \A i \in 1..Len(entrypointPaths[k].name) :
           IF \/ entrypointPaths[k].name[i] \notin {"a", "p", "y", "1"}
              \/ i = 1 /\ entrypointPaths[k].name[i] = "1"
             THEN Encoded(k, i)
             ELSE Kept(k, i)
      /\ \A j \in 2..Len(configs.configs[k].Entrypoint) :
           configs.configs[k].Entrypoint[j] \in IdentifierTokens
      /\ configs.configs[k].Entrypoint[2] # "1"

(* a Shiny Express file whose name has an underscore after a digit in the *)
(* first place                                                            *)
C25_Witness ==
    /\ configs.err = "none"
    /\ \E k \in ExpressConfigs :
         /\ entrypointPaths[k].name = <<"1", "_">> \o Extension
         /\ configs.configs[k].Entrypoint =
              <<"shiny.express.app:", "_31_", "_5f_", "_2e_", "p", "y">>

(* the files of the directory that import shiny, and the configurations *)
(* of the result made for the file at place i                           *)
ShinyFiles ==
    { i \in 1..Len(entrypointPaths) :
        entrypointPaths[i].content \in {"import shiny", "import shiny.express"} }
ConfigsFor(i) ==
    { k \in 1..Len(configs.configs) :
        configs.configs[k].Entrypoint \in
          {entrypointPaths[i].name, shinyExpressEntrypoint(entrypointPaths[i].name)} }

(* C30: when InferType returns without an error, its result holds one    *)
(* configuration for every .py file that imports shiny, whichever other  *)
(* .py files the directory has and in whichever order they are visited.  *)
C30_OneConfigPerShinyFile ==
    (configs # NotInferred /\ configs.err = "none") =>
      \A i \in ShinyFiles : Cardinality(ConfigsFor(i)) = 1

----------------------------------------------------------------------------
(* Properties of the editor service *)

States == {"NEW", "STARTING", "RUNNING", "STOPPING", "TERMINATED", "FAILED"}

(* the states a call of start() or stop() made in state s, with no other *)
(* call in progress, can leave the service in                            *)
AfterCall(s, op) ==
    IF s \in Expected(op) THEN {s}
    ELSE UNION { IF first.thrown THEN {first.state}
                 ELSE { second.state :
                          second \in transitionEnds(first.state, Transitions(op)[2][1],
                                                    Transitions(op)[2][2]) } :
                 first \in transitionEnds(s, Transitions(op)[1][1],
                                          Transitions(op)[1][2]) }

(* the states that calls of start() and stop(), one after the other, can *)
(* bring the service to from those of from                               *)
RECURSIVE Reachable(_, _)
Reachable(from, n) ==
    IF n = 0 THEN from
    ELSE Reachable(from \cup UNION { AfterCall(s, op) : s \in from,
                                                        op \in {"start", "stop"} },
                   n - 1)

Quiescent == \A c \in Calls : call[c].pc = "idle"

(* C28: in every state the service is left in when the calls made so far *)
(* have ended, callbacks that threw included, later calls of start() and *)
(* stop() can bring the service to RUNNING or to NEW.                    *)
C28_NeverStuck ==
    Quiescent =>
      Reachable({state}, Cardinality(States)) \cap {"RUNNING", "NEW"} # {}

(* C29: under any interleaving of calls of start() and stop() the         *)
(* assistant is started only in state NEW and stopped only in state       *)
(* RUNNING, and it is never started again before a stop has been carried  *)
(* through.                                                               *)
C29_StartOnlyWhenNew ==
    /\ [](assistant # "started twice")
    /\ [][(assistant' # assistant) =>
            /\ lock # 0
            /\ state = IF call[lock].op = "start" THEN "NEW" ELSE "RUNNING"
            /\ (call[lock].op = "start") => assistant = "stopped"]_vars

(* two calls of start() both found the service not running; one started *)
(* the assistant and the other was refused its transition               *)
C29_Witness ==
    /\ assistant = "started"
    /\ state = "RUNNING"
    /\ \E c \in Calls, d \in Calls :
         /\ c # d
         /\ call[c] = Call("start", "idle", 1, "returned")
         /\ call[d] = Call("start", "idle", 1, "rejected")

====
